---- MODULE Spec2Model ----
(***************************************************************************)
(* T-NSEC-Core memory engine: GraphManager (SQLite graph store),           *)
(* TKAPOCalibrator (decay / reinforcement), StreamingHashMemory (buffered  *)
(* karma updates + LSH index) and HSGE (cached structural signatures).     *)
(*                                                                         *)
(* Numbers.  Karma, weights and deltas are JavaScript numbers in the       *)
(* source; here they are exact fixed-point integers in thousandths         *)
(* (One = 1.0).  Time is Date.now() counted in ticks of 1/TicksPerDay day. *)
(*                                                                         *)
(* Storage.  better-sqlite3 opens every connection with foreign keys       *)
(* enforced, so the schema's FOREIGN KEY ... ON DELETE CASCADE clauses are *)
(* live: an INSERT into edges with a dangling endpoint raises a            *)
(* SqliteError and a DELETE on nodes removes the incident edges.           *)
(***************************************************************************)
EXTENDS Integers, Sequences, FiniteSets, TLC

VARIABLES
    nodes,          \* table nodes: id -> row
    edges,          \* table edges: id -> row
    idSeq,          \* how many ids generateId has handed out
    now,            \* Date.now(), in ticks
    accessHistory,  \* TKAPOCalibrator.accessHistory: nodeId -> events
    karmaBuffer,    \* StreamingHashMemory.karmaBuffer
    lshTables,      \* StreamingHashMemory.lshTables: table -> hash -> members
    flushTimer,     \* StreamingHashMemory.flushTimer is set
    signatureCache, \* HSGE.signatureCache: <<nodeId, hops>> -> signature
    hyperplanes,    \* StreamingHashMemory.hyperplanes: <<table, function>> -> vector
    symbolCodebook, \* HDCEngine.symbolCodebook: symbol -> vector
    relationCodebook, \* HDCEngine.relationCodebook: relation -> vector
    engineCalls,    \* the tasks processNext has handed to engine.infer, in order
    scheduleResults, \* the tasks for which a ScheduleResult was produced
    callers,        \* the processNext / processAll calls awaiting the engine
    flushLog,       \* what the flush run by the last call did (history)
    err,            \* the error the last call threw ("none": it returned)
    ret,            \* the last call: its name, its arguments, what it returned
    taskQueue,      \* HSpecScheduler.taskQueue
    buckets,        \* createRateLimiter's buckets: client key -> bucket
    clockMs,        \* nowMs() of the server, in milliseconds
    served,         \* the requests that reached the rate limiter (history)
    passLog         \* the store calls of the calibration pass the last call ran (history)

vars == <<nodes, edges, idSeq, now, accessHistory, karmaBuffer, lshTables,
          flushTimer, hyperplanes, signatureCache, symbolCodebook, relationCodebook,
          engineCalls, scheduleResults, callers, flushLog,
          err, ret, taskQueue, buckets, clockMs, served, passLog>>

storeVars == <<nodes, edges, idSeq>>
asyncVars == <<engineCalls, scheduleResults, callers>>

(* the callers of processNext and processAll; a caller with no call open *)
Callers == {1, 2}
Idle == [op |-> "idle", task |-> <<>>, results |-> <<>>]
streamVars == <<karmaBuffer, lshTables, flushTimer, hyperplanes>>
serviceVars == <<taskQueue, buckets, clockMs, served>>

-----------------------------------------------------------------------------
(* Bounds of the model *)

MaxIds == 3
MaxNow == 1
MaxBatch == 2

(* 1.0 in thousandths *)
One == 1000

Labels == {"A", "B"}
Types == {"concept", "entity"}
Relations == {"is_a", "causes"}

IdRange == 1..MaxIds

(* argument values the callers pass; the store accepts any number *)
KarmaArgs == {50, 500, 1500}
EdgeKarmaArgs == {500, -200}
WeightArgs == {One}
ThresholdArgs == {100, 600}

Min(a, b) == IF a < b THEN a ELSE b
Max(a, b) == IF a > b THEN a ELSE b

(* Math.max(0, Math.min(1, x)) *)
Clamp01(x) == Max(0, Min(One, x))

Abs(x) == IF x < 0 THEN -x ELSE x

(* the last call: val is what it returned; args is what the state after
   the call does not show of it: arguments, and for deleteNode the number of
   edges that were incident to the node *)
NoRet == [op |-> "init", args |-> <<>>, val |-> 0]

Ret(op, args, val) == [op |-> op, args |-> args, val |-> val]

Bool(b) == IF b THEN 1 ELSE 0

(* the last call ran no flush *)
NoFlush == [outcome |-> "none", buffer |-> <<>>, pre |-> <<>>]

-----------------------------------------------------------------------------
(* GraphManager *)

(* generateId: `${Date.now()}-${random}`; the n-th id handed out *)
generateId == idSeq + 1

(* SQL NULL in a text column *)
Null == "NULL"

(* an optional value that is not a string: <<>> when absent, <<v>> when v *)
Absent == <<>>
Some(v) == <<v>>

(* the row addNode inserts: embedding is the BLOB (a sequence of bytes) if
   any, metadata the JSON text or NULL *)
NodeRowWith(label, type, karma, embedding, metadata) ==
    [label |-> label, type |-> type, karma |-> karma,
     embedding |-> embedding, metadata |-> metadata,
     createdAt |-> now, updatedAt |-> now]

(* the row of a node given without embedding and metadata *)
NodeRow(label, type, karma) == NodeRowWith(label, type, karma, Absent, Null)

EdgeRow(src, tgt, relation, weight, karma) ==
    [sourceId |-> src, targetId |-> tgt, relation |-> relation,
     weight |-> weight, karma |-> karma]

(* FOREIGN KEY (source_id) / (target_id) REFERENCES nodes(id) *)
ForeignKeyNotEnforced(ns, src, tgt) == TRUE

ForeignKeyOk(ns, src, tgt) == src \in DOMAIN ns /\ tgt \in DOMAIN ns

(* ON DELETE CASCADE: the edges left once the nodes in gone are deleted *)
CascadeMissing(es, gone) == es

CascadeEdges(es, gone) ==
    [e \in {x \in DOMAIN es : es[x].sourceId \notin gone /\ es[x].targetId \notin gone}
        |-> es[e]]

Without(f, gone) == [x \in DOMAIN f \ gone |-> f[x]]

AddNode(label, type, karma) ==
    /\ idSeq < MaxIds
    /\ nodes' = (generateId :> NodeRow(label, type, karma)) @@ nodes
    /\ idSeq' = generateId
    /\ err' = "none"
    /\ ret' = Ret("addNode", <<>>, generateId)
    /\ passLog' = <<>>
    /\ flushLog' = NoFlush
    /\ UNCHANGED <<edges, now, accessHistory, streamVars, signatureCache,
                   symbolCodebook, relationCodebook, asyncVars, serviceVars>>

(* JSON.stringify / JSON.parse of the metadata objects in play: a property
   whose value is NaN is written as null *)
JsonStringify(metadata) ==
    CASE metadata = [tag |-> "test"] -> "{\"tag\":\"test\"}"
      [] metadata = [score |-> "NaN"] -> "{\"score\":null}"
      [] OTHER -> "{}"

JsonParse(text) ==
    CASE text = "{\"tag\":\"test\"}" -> [tag |-> "test"]
      [] text = "{\"score\":null}" -> [score |-> "null"]
      [] OTHER -> <<>>

(* INSERT OR REPLACE in place of UPDATE: the row is made anew *)
RowReplaced(row, updates) ==
    NodeRowWith(IF "label" \in DOMAIN updates THEN updates.label ELSE row.label,
                IF "type" \in DOMAIN updates THEN updates.type ELSE row.type,
                IF "karma" \in DOMAIN updates THEN updates.karma ELSE row.karma,
                Absent, Null)

(* updateNode: updates is a partial record over label, type, karma,
   metadata; UPDATE nodes SET <named columns>, updated_at = ? *)
UpdatedRow(row, updates) ==
    [row EXCEPT
        !.label = IF "label" \in DOMAIN updates THEN updates.label ELSE @,
        !.type = IF "type" \in DOMAIN updates THEN updates.type ELSE @,
        !.karma = IF "karma" \in DOMAIN updates THEN updates.karma ELSE @,
        !.metadata = IF "metadata" \in DOMAIN updates
                     THEN JsonStringify(updates.metadata) ELSE @,
        !.updatedAt = now]

UpdateArgs ==
    {<<>>} \cup {[karma |-> k] : k \in KarmaArgs}
           \cup {[type |-> t] : t \in Types}
           \cup {[label |-> "B", karma |-> 500]}

UpdateNode(id, updates) ==
    /\ nodes' = IF DOMAIN updates # {} /\ id \in DOMAIN nodes
                THEN [nodes EXCEPT ![id] = UpdatedRow(@, updates)]
                ELSE nodes
    /\ err' = "none"
    /\ ret' = Ret("updateNode", <<id, updates>>,
                  Bool(DOMAIN updates # {} /\ id \in DOMAIN nodes))
    /\ passLog' = <<>>
    /\ flushLog' = NoFlush
    /\ UNCHANGED <<edges, idSeq, now, accessHistory, streamVars, signatureCache,
                   symbolCodebook, relationCodebook, asyncVars, serviceVars>>

DeleteNode(id) ==
    /\ nodes' = Without(nodes, {id})
    /\ edges' = IF id \in DOMAIN nodes THEN CascadeEdges(edges, {id}) ELSE edges
    /\ err' = "none"
    /\ ret' = Ret("deleteNode",
                  <<id, Cardinality({e \in DOMAIN edges :
                          id \in {edges[e].sourceId, edges[e].targetId}})>>,
                  Bool(id \in DOMAIN nodes))
    /\ passLog' = <<>>
    /\ flushLog' = NoFlush
    /\ UNCHANGED <<idSeq, now, accessHistory, streamVars, signatureCache,
                   symbolCodebook, relationCodebook, asyncVars, serviceVars>>

AddEdge(src, tgt, relation, weight, karma) ==
    /\ idSeq < MaxIds
    /\ IF ForeignKeyOk(nodes, src, tgt)
       THEN /\ edges' = (generateId :> EdgeRow(src, tgt, relation, weight, karma)) @@ edges
            /\ idSeq' = generateId
            /\ err' = "none"
            /\ ret' = Ret("addEdge", <<src, tgt>>, generateId)
            /\ passLog' = <<>>
            /\ flushLog' = NoFlush
       ELSE /\ UNCHANGED <<edges, idSeq>>
            /\ err' = "SqliteError"
            /\ ret' = Ret("addEdge", <<src, tgt>>, 0)
            /\ passLog' = <<>>
            /\ flushLog' = NoFlush
    /\ UNCHANGED <<nodes, now, accessHistory, streamVars, signatureCache,
                   symbolCodebook, relationCodebook, asyncVars, serviceVars>>

UpdateEdgeKarma(id, karma) ==
    /\ edges' = IF id \in DOMAIN edges
                THEN [edges EXCEPT ![id].karma = karma]
                ELSE edges
    /\ err' = "none"
    /\ ret' = Ret("updateEdgeKarma", <<>>, Bool(id \in DOMAIN edges))
    /\ passLog' = <<>>
    /\ flushLog' = NoFlush
    /\ UNCHANGED <<nodes, idSeq, now, accessHistory, streamVars, signatureCache,
                   symbolCodebook, relationCodebook, asyncVars, serviceVars>>

DeleteEdge(id) ==
    /\ edges' = Without(edges, {id})
    /\ err' = "none"
    /\ ret' = Ret("deleteEdge", <<>>, Bool(id \in DOMAIN edges))
    /\ passLog' = <<>>
    /\ flushLog' = NoFlush
    /\ UNCHANGED <<nodes, idSeq, now, accessHistory, streamVars, signatureCache,
                   symbolCodebook, relationCodebook, asyncVars, serviceVars>>

(* DELETE FROM nodes WHERE karma < ? *)
PruneByKarma(threshold) ==
    LET gone == {n \in DOMAIN nodes : nodes[n].karma < threshold} IN
    /\ nodes' = Without(nodes, gone)
    /\ edges' = CascadeEdges(edges, gone)
    /\ err' = "none"
    /\ ret' = Ret("pruneByKarma", <<>>, Cardinality(gone))
    /\ passLog' = <<>>
    /\ flushLog' = NoFlush
    /\ UNCHANGED <<idSeq, now, accessHistory, streamVars, signatureCache,
                   symbolCodebook, relationCodebook, asyncVars, serviceVars>>

(* one UPDATE nodes SET karma = ?, updated_at = ? WHERE id = ? per update,
   in order: the table after the first k updates of the batch *)
RECURSIVE BatchApply(_, _, _)
BatchApply(ns, updates, k) ==
    IF k = 0 THEN ns
    ELSE LET prev == BatchApply(ns, updates, k - 1)
             u == updates[k]
         IN IF u.id \in DOMAIN prev
            THEN [prev EXCEPT ![u.id].karma = u.karma, ![u.id].updatedAt = now]
            ELSE prev

(* the sum of result.changes over the batch *)
BatchChanges(ns, updates) ==
    Cardinality({i \in 1..Len(updates) : updates[i].id \in DOMAIN ns})

(* db.transaction(fn): COMMIT when fn returns, ROLLBACK when it throws *)
NoRollback(before, after, failed) == after

Transaction(before, after, failed) == IF failed THEN before ELSE after

(* batchUpdateKarma; failAt = k > 0: the k-th stmt.run throws *)
BatchUpdateKarma(updates, failAt) ==
    LET failed == failAt > 0
        done == IF failed THEN failAt - 1 ELSE Len(updates)
    IN /\ nodes' = Transaction(nodes, BatchApply(nodes, updates, done), failed)
       /\ err' = IF failed THEN "SqliteError" ELSE "none"
       /\ ret' = Ret("batchUpdateKarma", <<updates>>,
                     IF failed THEN 0 ELSE BatchChanges(nodes, updates))
       /\ passLog' = <<>>
       /\ flushLog' = NoFlush
       /\ UNCHANGED <<edges, idSeq, now, accessHistory, streamVars, signatureCache,
                   symbolCodebook, relationCodebook, asyncVars, serviceVars>>

-----------------------------------------------------------------------------
(* TKAPOCalibrator, with the default options *)

(* forgetRate 0.1 = 1 / ForgetPeriod, reinforceRate 0.5 = 1 / ReinforcePeriod *)
ForgetPeriod == 10
ReinforcePeriod == 2
reinforceBonus == 300
pruneThreshold == 100
consolidateThreshold == 900
(* the failure factor 0.95 and the dead band 0.01 of runCalibration *)
FailureFactor == 950
DecayBand == 10

(* the clock's resolution: MS_PER_DAY, counted in ticks *)
TicksPerDay == 5

(* how many events recordAccess keeps per node (100 in the source) *)
HistoryLimit == 2

(* exp(-num/den) in millionths, by its power series: term k is
   (num/den)^k / k!, added with alternating sign until it vanishes *)
Million == 1000000

RECURSIVE ExpSeries(_, _, _, _)
ExpSeries(num, den, k, term) ==
    IF term = 0 THEN 0
    ELSE (IF k % 2 = 0 THEN term ELSE -term)
         + ExpSeries(num, den, k + 1, (term * num) \div (den * (k + 1)))

ExpNeg(num, den) == ExpSeries(num, den, 0, Million)

History(h, id) == IF id \in DOMAIN h THEN h[id] ELSE <<>>

SuccessCount(events) == Cardinality({i \in 1..Len(events) : events[i].success})

(* history.push(event); if (history.length > 100) history.shift() *)
KeepAll(events) == events

KeepRecent(events) == IF Len(events) > HistoryLimit THEN Tail(events) ELSE events

(* updateNodeKarma: reinforce on success, decay slightly on failure *)
AccessConsolidates(old, success) ==
    IF old > consolidateThreshold THEN One
    ELSE IF old < pruneThreshold THEN 0
    ELSE old

AccessKarma(old, success) ==
    IF success
    THEN Min(One, old + (reinforceBonus * (One - old)) \div One)
    ELSE (old * FailureFactor) \div One

RecordAccess(id, success) ==
    LET event == [success |-> success, timestamp |-> now]
        history == KeepRecent(Append(History(accessHistory, id), event))
    IN /\ accessHistory' = (id :> history) @@ accessHistory
       /\ nodes' = IF id \in DOMAIN nodes
                   THEN [nodes EXCEPT ![id] =
                            UpdatedRow(@, [karma |-> AccessKarma(nodes[id].karma, success)])]
                   ELSE nodes
       /\ err' = "none"
       /\ ret' = Ret("recordAccess", <<id, success>>, 0)
       /\ passLog' = <<>>
       /\ flushLog' = NoFlush
       /\ UNCHANGED <<edges, idSeq, now, streamVars, signatureCache,
                   symbolCodebook, relationCodebook, asyncVars, serviceVars>>

(* calculateDecayedKarma(node, nowMs) *)
calculateDecayedKarma(row, events, nowTicks) ==
    LET ticksSinceUpdate == nowTicks - row.updatedAt
        accessCount == Len(events)
        successCount == SuccessCount(events)
        \* forgetRate / (1 + accessCount * 0.1) = 1 / (10 + accessCount)
        forgetTerm == (row.karma * ExpNeg(ticksSinceUpdate,
                                          TicksPerDay * (ForgetPeriod + accessCount)))
                          \div Million
        reinforceTerm ==
            IF accessCount = 0 THEN 0
            ELSE (reinforceBonus * successCount
                    * (Million - ExpNeg(accessCount, ReinforcePeriod)))
                 \div (accessCount * Million)
    IN Clamp01(forgetTerm + reinforceTerm)

NewKarma(n) == calculateDecayedKarma(nodes[n], History(accessHistory, n), now)

(* getAllNodes(limit): SELECT * FROM nodes ORDER BY karma DESC LIMIT ? *)
getAllNodes(ns, limit) ==
    IF Cardinality(DOMAIN ns) <= limit THEN DOMAIN ns
    ELSE CHOOSE S \in SUBSET DOMAIN ns :
            /\ Cardinality(S) = limit
            /\ \A a \in S, b \in DOMAIN ns \ S : ns[a].karma >= ns[b].karma

(* the limits runCalibration / getStats and getNodesNeedingReview read with *)
CalibrationLimit == 100000
ReviewLimit == 1000

(* Math.abs(newKarma - node.karma) > 0.01 *)
DeadBandIgnored(newKarma, oldKarma) == TRUE

OutsideDeadBand(newKarma, oldKarma) == Abs(newKarma - oldKarma) > DecayBand

(* newKarma < this.pruneThreshold *)
ToPruneByStored ==
    {n \in getAllNodes(nodes, CalibrationLimit) : nodes[n].karma < pruneThreshold}

(* runCalibration: the three lists it builds from one read of all nodes *)
ToPrune == {n \in getAllNodes(nodes, CalibrationLimit) : NewKarma(n) < pruneThreshold}

ToConsolidate ==
    {n \in getAllNodes(nodes, CalibrationLimit) \ ToPrune :
        NewKarma(n) > consolidateThreshold}

ToDecay ==
    {n \in getAllNodes(nodes, CalibrationLimit) \ (ToPrune \cup ToConsolidate) :
        OutsideDeadBand(NewKarma(n), nodes[n].karma)}

(* the store calls of a runCalibration pass up to its last write, in order:
   the read of all nodes, batchUpdateKarma, deleteNode for every id in
   toPrune *)
PassCallsDeleteFirst(read, batch, deletes) == deletes \o <<read, batch>>

PassCalls(read, batch, deletes) == <<read, batch>> \o deletes

RECURSIVE PruneCalls(_)
PruneCalls(ids) ==
    IF ids = {} THEN <<>>
    ELSE LET n == CHOOSE x \in ids : \A y \in ids : x <= y
         IN <<[call |-> "deleteNode", id |-> n]>> \o PruneCalls(ids \ {n})

CalibrationCalls ==
    PassCalls([call |-> "getAllNodes",
               rows |-> [n \in getAllNodes(nodes, CalibrationLimit) |-> nodes[n]]],
              [call |-> "batchUpdateKarma",
               updates |-> [n \in ToConsolidate \cup ToDecay |->
                              IF n \in ToConsolidate THEN One ELSE NewKarma(n)]],
              PruneCalls(ToPrune))

(* the tables once the calls have run, one after the other *)
RECURSIVE ApplyCalls(_, _, _)
ApplyCalls(ns, es, calls) ==
    IF calls = <<>> THEN [nodes |-> ns, edges |-> es]
    ELSE LET c == Head(calls) IN
         IF c.call = "batchUpdateKarma"
         THEN ApplyCalls([n \in DOMAIN ns |->
                            IF n \in DOMAIN c.updates
                            THEN [ns[n] EXCEPT !.karma = c.updates[n],
                                               !.updatedAt = now]
                            ELSE ns[n]],
                         es, Tail(calls))
         ELSE IF c.call = "deleteNode"
         THEN ApplyCalls(Without(ns, {c.id}),
                         IF c.id \in DOMAIN ns THEN CascadeEdges(es, {c.id}) ELSE es,
                         Tail(calls))
         ELSE ApplyCalls(ns, es, Tail(calls))

(* runCalibration *)
RunCalibration ==
    LET after == ApplyCalls(nodes, edges, CalibrationCalls)
    IN /\ nodes' = after.nodes
       /\ edges' = after.edges
       /\ err' = "none"
       /\ ret' = Ret("runCalibration", <<>>, Cardinality(ToPrune))
       /\ passLog' = CalibrationCalls
       /\ flushLog' = NoFlush
       /\ UNCHANGED <<idSeq, now, accessHistory, streamVars, signatureCache,
                   symbolCodebook, relationCodebook, asyncVars, serviceVars>>

(* time passes between calls *)
Tick ==
    /\ now < MaxNow
    /\ now' = now + 1
    /\ err' = "none"
    /\ ret' = Ret("tick", <<>>, 0)
    /\ passLog' = <<>>
    /\ flushLog' = NoFlush
    /\ UNCHANGED <<storeVars, accessHistory, streamVars, signatureCache,
                   symbolCodebook, relationCodebook, asyncVars, serviceVars>>

(* importHistory(history): this.accessHistory = new Map(history) *)
ImportHistory(history) ==
    /\ accessHistory' = history
    /\ err' = "none"
    /\ ret' = Ret("importHistory", <<>>, 0)
    /\ passLog' = <<>>
    /\ flushLog' = NoFlush
    /\ UNCHANGED <<storeVars, now, streamVars, signatureCache, symbolCodebook, relationCodebook, asyncVars,
                   serviceVars>>

(* clearHistory: this.accessHistory.clear() *)
ClearHistory ==
    /\ accessHistory' = <<>>
    /\ err' = "none"
    /\ ret' = Ret("clearHistory", <<>>, 0)
    /\ passLog' = <<>>
    /\ flushLog' = NoFlush
    /\ UNCHANGED <<storeVars, now, streamVars, signatureCache, symbolCodebook, relationCodebook, asyncVars,
                   serviceVars>>

(* this.accessHistory.get(nodeId) || []: the map after the lookup *)
LookupCreates(h, id) == (id :> History(h, id)) @@ h

LookupLeaves(h, id) == h

(* predictForgetting: max(0, karma * exp(-adjustedForgetRate * day)) for
   day = 0..daysAhead; [] for a missing node *)
Predictions(ns, h, id, daysAhead) ==
    IF id \notin DOMAIN ns THEN <<>>
    ELSE [i \in 1..(daysAhead + 1) |->
            Max(0, (ns[id].karma * ExpNeg(i - 1, ForgetPeriod + Len(History(h, id))))
                      \div Million)]

PredictForgetting(id, daysAhead) ==
    /\ accessHistory' = IF id \in DOMAIN nodes THEN LookupLeaves(accessHistory, id)
                        ELSE accessHistory
    /\ err' = "none"
    /\ ret' = Ret("predictForgetting", <<id>>,
                  Predictions(nodes, accessHistory, id, daysAhead))
    /\ passLog' = <<>>
    /\ flushLog' = NoFlush
    /\ UNCHANGED <<storeVars, now, streamVars, signatureCache, symbolCodebook, relationCodebook, asyncVars,
                   serviceVars>>

(* -Math.log(0.7), in millionths *)
LogReview == 356675

(* Math.round of num / den, for num >= 0 *)
Round(num, den) == (2 * num + den) \div (2 * den)

(* getOptimalReviewTime: 0 for a missing node; targetKarma / node.karma is
   0 / 0 for a node of karma 0, and the result NaN *)
ReviewTime(ns, h, id) ==
    IF id \notin DOMAIN ns THEN 0
    ELSE IF ns[id].karma = 0 THEN "NaN"
    ELSE Max(1, Round(LogReview * (ForgetPeriod + Len(History(h, id))),
                      Million))

GetOptimalReviewTime(id) ==
    /\ accessHistory' = IF id \in DOMAIN nodes THEN LookupLeaves(accessHistory, id)
                        ELSE accessHistory
    /\ err' = "none"
    /\ ret' = Ret("getOptimalReviewTime", <<id>>, ReviewTime(nodes, accessHistory, id))
    /\ passLog' = <<>>
    /\ flushLog' = NoFlush
    /\ UNCHANGED <<storeVars, now, streamVars, signatureCache, symbolCodebook, relationCodebook, asyncVars,
                   serviceVars>>

(* getNodesNeedingReview(topK): one entry per node of karma above
   pruneThreshold among the nodes read, cut to topK; the value kept is the
   number of entries *)
GetNodesNeedingReview(topK) ==
    LET results == {n \in getAllNodes(nodes, ReviewLimit) : nodes[n].karma > pruneThreshold}
    IN /\ err' = "none"
       /\ ret' = Ret("getNodesNeedingReview", <<>>, Min(topK, Cardinality(results)))
       /\ passLog' = <<>>
       /\ flushLog' = NoFlush
       /\ UNCHANGED <<storeVars, now, accessHistory, streamVars, signatureCache,
                      symbolCodebook, relationCodebook, asyncVars, serviceVars>>

(* getStats: the counts it returns *)
GetStats ==
    LET read == getAllNodes(nodes, CalibrationLimit)
    IN /\ err' = "none"
       /\ ret' = Ret("getStats", <<>>,
                     [totalNodes |-> Cardinality(read),
                      nodesAtRisk |-> Cardinality({n \in read :
                                          nodes[n].karma < pruneThreshold * 2}),
                      consolidatedNodes |-> Cardinality({n \in read :
                                          nodes[n].karma > consolidateThreshold}),
                      accessHistorySize |-> Cardinality(DOMAIN accessHistory)])
       /\ passLog' = <<>>
       /\ flushLog' = NoFlush
       /\ UNCHANGED <<storeVars, now, accessHistory, streamVars, signatureCache,
                      symbolCodebook, relationCodebook, asyncVars, serviceVars>>

-----------------------------------------------------------------------------
(* HDCEngine *)

(* a HyperVector is a Uint8Array: eight bits per element, bit 1 of the
   model is bit 0 of byte 0 *)
ByteBits == 8

(* dimensions of the engine the components share (10000 in the source,
   a whole number of bytes as well) *)
Dimensions == 8

(* new Uint8Array(Math.ceil(dimensions / 8)): the bits a vector of an
   engine of d dimensions holds *)
VectorBits(d) == ByteBits * ((d + ByteBits - 1) \div ByteBits)

VectorsOf(d) == [1..VectorBits(d) -> {0, 1}]

Bits == 1..Dimensions
Vectors == VectorsOf(Dimensions)

(* hammingDistance: the popcount of a[i] ^ b[i] over every byte of a *)
hammingDistance(a, b) == Cardinality({i \in DOMAIN a : a[i] # b[i]})

(* similarity = 1 - distance / dimensions, as the fraction num / den of an
   engine of d dimensions *)
similarity(d, a, b) == [num |-> d - hammingDistance(a, b), den |-> d]

(* similarity(a, b).similarity > 0.5 on the shared engine *)
SimilarityAboveHalf(a, b) == 2 * hammingDistance(a, b) < Dimensions

(* generateDeterministicVector with seed 42: the first byte of
   SHA-256("42:" + name) *)
generateDeterministicVector(name) ==
    CASE name = "A" -> <<1, 0, 0, 1, 0, 0, 0, 0>>
      [] name = "B" -> <<1, 0, 0, 0, 0, 0, 1, 0>>
      [] name = "concept" -> <<0, 1, 1, 1, 0, 0, 1, 0>>
      [] name = "entity" -> <<0, 0, 0, 1, 0, 0, 1, 1>>
      [] name = "is_a" -> <<1, 0, 1, 1, 0, 1, 1, 1>>
      [] name = "rel:is_a" -> <<0, 1, 0, 1, 1, 1, 1, 1>>
      [] name = "rel:likes" -> <<0, 1, 1, 1, 0, 1, 1, 1>>
      [] name = "causes" -> <<1, 1, 0, 1, 1, 0, 1, 0>>
      [] OTHER -> <<1, 1, 1, 1, 1, 1, 1, 1>>

(* getSymbolVector: the codebook entry, made on first use *)
CodebookVector(cb, symbol) ==
    IF symbol \in DOMAIN cb THEN cb[symbol] ELSE generateDeterministicVector(symbol)

SymbolVector(symbol) == CodebookVector(symbolCodebook, symbol)

(* the codebook once getSymbolVector has been called for symbols *)
Learned(cb, symbols) ==
    [s \in DOMAIN cb \cup symbols |-> CodebookVector(cb, s)]

(* initializeMetaRelations: every META_RELATIONS entry under its bare name;
   is_a and causes are the entries the model uses *)
MetaCodebook == [r \in {"is_a", "causes"} |-> generateDeterministicVector(r)]

(* getRelationVector: a relation not yet in the relation codebook is entered
   with the vector of its name behind the prefix rel: *)
getRelationVector(book, relation) ==
    IF relation \in DOMAIN book
    THEN book[relation]
    ELSE generateDeterministicVector("rel:" \o relation)

RelationVector(relation) == getRelationVector(relationCodebook, relation)

(* the relation codebook once getRelationVector has run for relations *)
LearnedRelations(book, relations) ==
    [r \in DOMAIN book \cup relations |-> getRelationVector(book, r)]

(* bind: XOR, byte by byte over a *)
bindOr(a, b) == [i \in DOMAIN a |-> IF a[i] + b[i] > 0 THEN 1 ELSE 0]

bind(a, b) == [i \in DOMAIN a |-> (a[i] + b[i]) % 2]

(* unbind(combined, key) = bind(combined, key) *)
unbind(combined, key) == bind(combined, key)

(* a triple vector that leaves the target out *)
encodeTripleOfSource(source, relation, target) ==
    bind(RelationVector(relation), SymbolVector(source))

(* a triple vector that leaves the relation vector out *)
encodeTripleUnbound(source, relation, target) ==
    bind(SymbolVector(source), SymbolVector(target))

(* encodeTriple: bind(relation, bind(source, target)) *)
encodeTriple(source, relation, target) ==
    bind(RelationVector(relation), bind(SymbolVector(source), SymbolVector(target)))

(* the vector of an empty bundle *)
bundleEmpty(d, vs, coin) == [i \in 1..VectorBits(d) |-> 0]

(* bitCounts is a Uint16Array: a count wraps at 2^16 *)
CounterModulus == 65536

(* the second loop of bundle, over n vectors of which counts[i] have 1 at
   bit i: the majority vote per dimension; coin[i] = 1 stands for
   Math.random() > 0.5 at dimension i; the bits past d stay 0 *)
MajorityVote(d, n, counts, coin) ==
    [i \in 1..VectorBits(d) |->
        LET bitCount == counts[i] % CounterModulus
        IN IF i <= d /\ (2 * bitCount > n \/ (2 * bitCount = n /\ coin[i] = 1))
           THEN 1 ELSE 0]

(* bundle on an engine of d dimensions; vs is the collection of input
   vectors *)
bundleOf(d, vs, coin) ==
    LET n == Cardinality(DOMAIN vs)
    IN IF n = 0 THEN [i \in 1..VectorBits(d) |-> 0]
       ELSE IF n = 1 THEN vs[CHOOSE e \in DOMAIN vs : TRUE]
       ELSE MajorityVote(d, n,
                         [i \in 1..VectorBits(d) |->
                             Cardinality({e \in DOMAIN vs : vs[e][i] = 1})],
                         coin)

bundle(vs, coin) == bundleOf(Dimensions, vs, coin)

-----------------------------------------------------------------------------
(* StreamingHashMemory *)

(* bufferCapacity (100 by default) *)
BufferCapacity == 2
(* numHashTables and numHashFunctions, by default *)
NumHashTables == 4
NumHashFunctions == 8
(* the model stops buffering at this length *)
MaxBuffer == 2

Tables == 1..NumHashTables
HashFunctions == 1..NumHashFunctions

DeltaArgs == {250, -250}

(* a KarmaBufferEntry *)
Entry(nodeId, delta, source) ==
    [nodeId |-> nodeId, delta |-> delta, timestamp |-> now, source |-> source]

(* computeLSHHash: one bit per hash function of the table *)
computeLSHHash(vector, t) ==
    [h \in HashFunctions |->
        IF SimilarityAboveHalf(vector, hyperplanes[<<t, h>>]) THEN 1 ELSE 0]

(* an index update that leaves the node in the buckets it was in *)
updateLSHIndexAdding(tables, ns, id) ==
    IF id \notin DOMAIN ns THEN tables
    ELSE [t \in Tables |->
            LET hash == computeLSHHash(SymbolVector(ns[id].label), t)
                bucket == IF hash \in DOMAIN tables[t] THEN tables[t][hash] ELSE {}
            IN (hash :> (bucket \cup {id})) @@ tables[t]]

(* updateLSHIndex(nodeId) on the tables, reading the node from ns *)
updateLSHIndex(tables, ns, id) ==
    IF id \notin DOMAIN ns THEN tables
    ELSE [t \in Tables |->
            LET hash == computeLSHHash(SymbolVector(ns[id].label), t)
                removed == [b \in DOMAIN tables[t] |-> tables[t][b] \ {id}]
                bucket == IF hash \in DOMAIN removed THEN removed[hash] ELSE {}
            IN (hash :> (bucket \cup {id})) @@ removed]

(* updateLSHIndex for the first k updates, in order *)
RECURSIVE IndexUpdates(_, _, _, _)
IndexUpdates(tables, ns, updates, k) ==
    IF k = 0 THEN tables
    ELSE updateLSHIndex(IndexUpdates(tables, ns, updates, k - 1), ns, updates[k].id)

(* flush, step 1: mergedUpdates, a Map in insertion order.  The keys after
   the first k entries, and the sum the Map holds for one key *)
RECURSIVE MergedIds(_, _)
MergedIds(buffer, k) ==
    IF k = 0 THEN <<>>
    ELSE LET prev == MergedIds(buffer, k - 1)
         IN IF \E i \in 1..Len(prev) : prev[i] = buffer[k].nodeId
            THEN prev
            ELSE Append(prev, buffer[k].nodeId)

(* a Map that keeps only the last delta set for a key *)
LastDelta(buffer, id, k) ==
    LET idx == {i \in 1..k : buffer[i].nodeId = id}
    IN IF idx = {} THEN 0
       ELSE buffer[CHOOSE i \in idx : \A j \in idx : j <= i].delta

RECURSIVE MergedDelta(_, _, _)
MergedDelta(buffer, id, k) ==
    IF k = 0 THEN 0
    ELSE MergedDelta(buffer, id, k - 1)
         + (IF buffer[k].nodeId = id THEN buffer[k].delta ELSE 0)

(* updates that write the sum without Math.max(0, Math.min(1, ...)) *)
RECURSIVE UpdatesUnclamped(_, _, _, _)
UpdatesUnclamped(ns, buffer, ids, k) ==
    IF k = 0 THEN <<>>
    ELSE LET prev == UpdatesUnclamped(ns, buffer, ids, k - 1)
             id == ids[k]
         IN IF id \in DOMAIN ns
            THEN Append(prev, [id |-> id,
                               karma |-> ns[id].karma
                                         + MergedDelta(buffer, id, Len(buffer))])
            ELSE prev

(* flush, step 2: one update per merged id whose node exists *)
RECURSIVE UpdatesFor(_, _, _, _)
UpdatesFor(ns, buffer, ids, k) ==
    IF k = 0 THEN <<>>
    ELSE LET prev == UpdatesFor(ns, buffer, ids, k - 1)
             id == ids[k]
         IN IF id \in DOMAIN ns
            THEN Append(prev, [id |-> id,
                               karma |-> Clamp01(ns[id].karma
                                                 + MergedDelta(buffer, id, Len(buffer)))])
            ELSE prev

(* a flush that writes every entry on its own, clamping each time *)
RECURSIVE EntryByEntry(_, _, _)
EntryByEntry(ns, buffer, k) ==
    IF k = 0 THEN <<>>
    ELSE LET prev == EntryByEntry(ns, buffer, k - 1)
             id == buffer[k].nodeId
             sofar == BatchApply(ns, prev, Len(prev))
         IN IF id \in DOMAIN ns
            THEN Append(prev, [id |-> id,
                               karma |-> Clamp01(sofar[id].karma + buffer[k].delta)])
            ELSE prev

UpdatesEntryByEntry(ns, buffer) == EntryByEntry(ns, buffer, Len(buffer))

FlushUpdates(ns, buffer) ==
    LET ids == MergedIds(buffer, Len(buffer))
    IN UpdatesFor(ns, buffer, ids, Len(ids))

(* the nodes table a successful flush of buffer leaves *)
FlushedNodes(ns, buffer) ==
    LET updates == FlushUpdates(ns, buffer)
    IN BatchApply(ns, updates, Len(updates))

(* this.karmaBuffer = [] is the statement after the write and the index
   update: a flush that throws never reaches it *)
ClearedFirst(buffer, failed) == <<>>

(* a flush that never empties the buffer *)
BufferKept(buffer, failed) == buffer

BufferAfterFlush(buffer, failed) == IF failed THEN buffer ELSE <<>>

(* where a store error may strike during flush *)
FailPoints == {"none", "read", "write", "index"}

(* flush() on a non-empty buffer.  fail = "read": a getNode of step 2
   throws; "write": batchUpdateKarma throws and rolls back; "index": the
   getNode of the failIdx-th updateLSHIndex throws, after the write *)
RunFlush(buffer, fail, failIdx) ==
    \E updates \in {FlushUpdates(nodes, buffer)} :
    LET written == BatchApply(nodes, updates, Len(updates))
        committed == fail \in {"none", "index"}
        indexed == IF fail = "none" THEN Len(updates)
                   ELSE IF fail = "index" THEN failIdx - 1
                   ELSE 0
    IN /\ fail = "index" => failIdx \in 1..Len(updates)
       /\ fail # "index" => failIdx = 0
       /\ nodes' = Transaction(nodes, written, ~committed)
       /\ lshTables' = IndexUpdates(lshTables, nodes', updates, indexed)
       /\ UNCHANGED <<relationCodebook, asyncVars>>
       /\ symbolCodebook' = Learned(symbolCodebook,
                                    {nodes[updates[i].id].label : i \in 1..indexed})
       /\ karmaBuffer' = BufferAfterFlush(buffer, fail # "none")
       /\ passLog' = <<>>
       /\ flushLog' = [outcome |-> IF fail = "none" THEN "ok" ELSE "failed",
                       buffer |-> buffer, pre |-> nodes]
       /\ err' = IF fail = "none" THEN "none" ELSE "SqliteError"

(* flush(): returns 0 at once on an empty buffer *)
FlushBody(buffer, fail, failIdx) ==
    IF Len(buffer) = 0
    THEN /\ fail = "none" /\ failIdx = 0
         /\ karmaBuffer' = buffer
         /\ passLog' = <<>>
         /\ flushLog' = NoFlush
         /\ err' = "none"
         /\ UNCHANGED <<nodes, lshTables, symbolCodebook, relationCodebook, asyncVars>>
    ELSE RunFlush(buffer, fail, failIdx)

FlushCount(buffer, fail) ==
    IF fail = "none" THEN Len(FlushUpdates(nodes, buffer)) ELSE 0

Flush(fail, failIdx) ==
    /\ FlushBody(karmaBuffer, fail, failIdx)
    /\ ret' = Ret("flush", <<>>, FlushCount(karmaBuffer, fail))
    /\ UNCHANGED <<edges, idSeq, now, accessHistory, flushTimer, hyperplanes,
                   signatureCache, serviceVars>>

(* the setInterval callback of startAutoFlush:
   if (this.karmaBuffer.length > 0) this.flush() *)
TimerFlush(fail, failIdx) ==
    /\ flushTimer
    /\ Len(karmaBuffer) > 0
    /\ FlushBody(karmaBuffer, fail, failIdx)
    /\ ret' = Ret("timer", <<>>, FlushCount(karmaBuffer, fail))
    /\ UNCHANGED <<edges, idSeq, now, accessHistory, flushTimer, hyperplanes,
                   signatureCache, serviceVars>>

(* if (this.karmaBuffer.length >= this.bufferCapacity) this.flush() *)
AboveCapacity(len) == len > BufferCapacity

CapacityReached(len) == len >= BufferCapacity

(* push, then flush at capacity *)
PushThenFlush(pushed, fail, failIdx) ==
    IF CapacityReached(Len(pushed))
    THEN FlushBody(pushed, fail, failIdx)
    ELSE /\ fail = "none" /\ failIdx = 0
         /\ karmaBuffer' = pushed
         /\ passLog' = <<>>
         /\ flushLog' = NoFlush
         /\ err' = "none"
         /\ UNCHANGED <<nodes, lshTables, symbolCodebook, relationCodebook, asyncVars>>

BufferKarmaUpdate(nodeId, delta, fail, failIdx) ==
    /\ Len(karmaBuffer) < MaxBuffer
    /\ PushThenFlush(Append(karmaBuffer, Entry(nodeId, delta, "user")), fail, failIdx)
    /\ ret' = Ret("bufferKarmaUpdate", <<nodeId, delta>>, 0)
    /\ UNCHANGED <<edges, idSeq, now, accessHistory, flushTimer, hyperplanes,
                   signatureCache, serviceVars>>

BatchEntries(updates) ==
    [i \in 1..Len(updates) |-> Entry(updates[i].nodeId, updates[i].delta, "batch")]

BufferBatchUpdates(updates, fail, failIdx) ==
    /\ Len(karmaBuffer) + Len(updates) <= MaxBuffer
    /\ PushThenFlush(karmaBuffer \o BatchEntries(updates), fail, failIdx)
    /\ ret' = Ret("bufferBatchUpdates", <<updates>>, 0)
    /\ UNCHANGED <<edges, idSeq, now, accessHistory, flushTimer, hyperplanes,
                   signatureCache, serviceVars>>

StopAutoFlush ==
    /\ flushTimer' = FALSE
    /\ err' = "none"
    /\ ret' = Ret("stopAutoFlush", <<>>, 0)
    /\ passLog' = <<>>
    /\ flushLog' = NoFlush
    /\ UNCHANGED <<storeVars, now, accessHistory, karmaBuffer, lshTables,
                   hyperplanes, signatureCache,
                   symbolCodebook, relationCodebook, asyncVars, serviceVars>>

ClearBuffer ==
    /\ karmaBuffer' = <<>>
    /\ err' = "none"
    /\ ret' = Ret("clearBuffer", <<>>, 0)
    /\ passLog' = <<>>
    /\ flushLog' = NoFlush
    /\ UNCHANGED <<storeVars, now, accessHistory, lshTables, flushTimer,
                   hyperplanes, signatureCache,
                   symbolCodebook, relationCodebook, asyncVars, serviceVars>>

(* close(): flush(), then stopAutoFlush() when the flush returned *)
Close(fail, failIdx) ==
    /\ FlushBody(karmaBuffer, fail, failIdx)
    /\ flushTimer' = IF fail = "none" THEN FALSE ELSE flushTimer
    /\ ret' = Ret("close", <<>>, 0)
    /\ UNCHANGED <<edges, idSeq, now, accessHistory, hyperplanes, signatureCache,
                   serviceVars>>

(* rebuildIndex(): clear every table, then updateLSHIndex for every node *)
RECURSIVE IndexAll(_, _, _)
IndexAll(tables, ns, ids) ==
    IF ids = {} THEN tables
    ELSE LET id == CHOOSE x \in ids : TRUE
         IN IndexAll(updateLSHIndex(tables, ns, id), ns, ids \ {id})

EmptyTables == [t \in Tables |-> <<>>]

(* tables that keep their buckets *)
TablesKept(tables) == tables

(* for (const table of this.lshTables.values()) table.clear() *)
ClearedTables(tables) == [t \in DOMAIN tables |-> <<>>]

(* the limit rebuildIndex reads the nodes with *)
IndexLimit == 100000

RebuildIndex ==
    /\ lshTables' = IndexAll(ClearedTables(lshTables), nodes,
                             getAllNodes(nodes, IndexLimit))
    /\ UNCHANGED <<relationCodebook, asyncVars>>
    /\ symbolCodebook' = Learned(symbolCodebook, {nodes[n].label : n \in DOMAIN nodes})
    /\ err' = "none"
    /\ ret' = Ret("rebuildIndex", <<>>, 0)
    /\ passLog' = <<>>
    /\ flushLog' = NoFlush
    /\ UNCHANGED <<storeVars, now, accessHistory, karmaBuffer, flushTimer,
                   hyperplanes, signatureCache, serviceVars>>

-----------------------------------------------------------------------------
(* GraphManager.getSubgraph and HSGE *)

HopsArgs == {1, 2}
DefaultHops == 2

Incident(es, layer) ==
    {e \in DOMAIN es : es[e].sourceId \in layer \/ es[e].targetId \in layer}

(* breadth-first expansion: h more hops from layer *)
RECURSIVE Expand(_, _, _, _, _)
Expand(es, layer, visited, found, h) ==
    IF h = 0 THEN [visited |-> visited, edges |-> found]
    ELSE LET here == Incident(es, layer)
             ends == {es[e].sourceId : e \in here} \cup {es[e].targetId : e \in here}
             next == ends \ visited
         IN Expand(es, next, visited \cup next, found \cup here, h - 1)

(* getSubgraph(seedNodeIds, hops): the ids of its nodes and of its edges *)
getSubgraph(ns, es, seeds, hops) ==
    LET r == Expand(es, seeds, seeds, {}, hops)
    IN [nodes |-> r.visited \cap DOMAIN ns, edges |-> r.edges]

RelationCount(es, sub, relations) ==
    Cardinality({e \in sub.edges : es[e].relation \in relations})

(* identifyMetaConcepts; the relations of the model are is_a and causes *)
identifyMetaConcepts(es, sub) ==
    (IF RelationCount(es, sub, {"is_a"}) > 2 THEN {"is_a_hierarchy"} ELSE {})
    \cup (IF RelationCount(es, sub, {"part_of", "has_a"}) > 0 THEN {"part_whole"} ELSE {})
    \cup (IF RelationCount(es, sub, {"causes"}) > 0 THEN {"cause_effect"} ELSE {})
    \cup (IF RelationCount(es, sub, {"similar_to"}) > 2 THEN {"similarity_cluster"} ELSE {})

(* the triple vectors of the subgraph's edges whose endpoints are both in it *)
TripleVectors(ns, es, sub) ==
    [e \in {x \in sub.edges : es[x].sourceId \in sub.nodes /\ es[x].targetId \in sub.nodes}
        |-> encodeTriple(ns[es[e].sourceId].type, es[e].relation, ns[es[e].targetId].type)]

(* the symbols encodeTriple looks up while the signature is computed *)
TripleSymbols(ns, es, nodeId, hops) ==
    LET sub == getSubgraph(ns, es, {nodeId}, hops)
        inside == {x \in sub.edges : es[x].sourceId \in sub.nodes /\ es[x].targetId \in sub.nodes}
    IN {ns[es[e].sourceId].type : e \in inside} \cup {ns[es[e].targetId].type : e \in inside}

(* the signature encodeNodeStructure computes on a cache miss; rnd is the
   random source: generateRandomVector's result, and bundle's coin flips *)
ComputeSignature(ns, es, nodeId, hops, rnd) ==
    LET sub == getSubgraph(ns, es, {nodeId}, hops)
        triples == TripleVectors(ns, es, sub)
    IN [id |-> <<nodeId, hops>>,
        vector |-> IF DOMAIN triples # {} THEN bundle(triples, rnd) ELSE rnd,
        nodeCount |-> Cardinality(sub.nodes),
        edgeCount |-> Cardinality(sub.edges),
        centerNodeId |-> nodeId,
        metaConcepts |-> identifyMetaConcepts(es, sub)]

(* if (this.signatureCache.has(cacheKey)) return the cached signature *)
CacheLookup(cache, key) == key \in DOMAIN cache

(* encodeNodeStructure on cache: the signature returned and the cache left *)
Encoded(cache, nodeId, hops, rnd) ==
    LET key == <<nodeId, hops>>
    IN IF CacheLookup(cache, key)
       THEN [sig |-> cache[key], cache |-> cache]
       ELSE LET sig == ComputeSignature(nodes, edges, nodeId, hops, rnd)
            IN [sig |-> sig, cache |-> (key :> sig) @@ cache]

(* the codebook after encodeNodeStructure on cache *)
EncodedCodebook(cache, nodeId, hops) ==
    IF CacheLookup(cache, <<nodeId, hops>>)
    THEN symbolCodebook
    ELSE Learned(symbolCodebook, TripleSymbols(nodes, edges, nodeId, hops))

EncodeNodeStructure(nodeId, hops, rnd) ==
    LET r == Encoded(signatureCache, nodeId, hops, rnd)
    IN /\ signatureCache' = r.cache
       /\ err' = "none"
       /\ ret' = Ret("encodeNodeStructure", <<nodeId, hops>>, r.sig)
       /\ UNCHANGED <<relationCodebook, asyncVars>>
       /\ symbolCodebook' = EncodedCodebook(signatureCache, nodeId, hops)
       /\ passLog' = <<>>
       /\ flushLog' = NoFlush
       /\ UNCHANGED <<storeVars, now, accessHistory, streamVars, serviceVars>>

(* updateSignature(nodeId): drop the node's own keys, encode again with the
   default hops *)
UpdateSignature(nodeId, rnd) ==
    LET dropped == [k \in {x \in DOMAIN signatureCache : x[1] # nodeId}
                      |-> signatureCache[k]]
        r == Encoded(dropped, nodeId, DefaultHops, rnd)
    IN /\ signatureCache' = r.cache
       /\ err' = "none"
       /\ ret' = Ret("updateSignature", <<nodeId>>, 0)
       /\ UNCHANGED <<relationCodebook, asyncVars>>
       /\ symbolCodebook' = EncodedCodebook(dropped, nodeId, DefaultHops)
       /\ passLog' = <<>>
       /\ flushLog' = NoFlush
       /\ UNCHANGED <<storeVars, now, accessHistory, streamVars, serviceVars>>

ClearCache ==
    /\ signatureCache' = <<>>
    /\ err' = "none"
    /\ ret' = Ret("clearCache", <<>>, 0)
    /\ passLog' = <<>>
    /\ flushLog' = NoFlush
    /\ UNCHANGED <<storeVars, now, accessHistory, streamVars,
                   symbolCodebook, relationCodebook, asyncVars, serviceVars>>

-----------------------------------------------------------------------------
(* Specifications *)

InitState(planes, first) ==
    /\ nodes = <<>>
    /\ edges = <<>>
    /\ idSeq = 0
    /\ now = 0
    /\ accessHistory = <<>>
    /\ karmaBuffer = <<>>
    /\ lshTables = EmptyTables
    /\ flushTimer = TRUE
    /\ hyperplanes = planes
    /\ signatureCache = <<>>
    /\ symbolCodebook = <<>>
    /\ relationCodebook = MetaCodebook
    /\ engineCalls = <<>>
    /\ scheduleResults = <<>>
    /\ callers = [c \in Callers |-> Idle]
    /\ flushLog = NoFlush
    /\ err = "none"
    /\ ret = first
    /\ taskQueue = <<>>
    /\ buckets = <<>>
    /\ clockMs = 0
    /\ served = <<>>
    /\ passLog = <<>>

InitWith(planes) == InitState(planes, NoRet)

(* initializeLSH draws one random vector per table and hash function; here
   every draw gives the same vector *)
Init == InitWith([p \in Tables \X HashFunctions |-> <<1, 0, 1, 0, 1, 0, 1, 0>>])

(* the graph store with the calibration pass *)
Next ==
    \/ \E k \in KarmaArgs : AddNode("A", "concept", k)
    \/ \E id \in IdRange : UpdateNode(id, [karma |-> 500])
    \/ \E id \in IdRange : DeleteNode(id)
    \/ \E s \in IdRange, t \in IdRange : AddEdge(s, t, "is_a", One, 500)
    \/ \E id \in IdRange, k \in EdgeKarmaArgs : UpdateEdgeKarma(id, k)
    \/ \E id \in IdRange : DeleteEdge(id)
    \/ \E th \in ThresholdArgs : PruneByKarma(th)
    \/ RunCalibration

Spec == Init /\ [][Next]_vars

(* batchUpdateKarma on a store whose nodes come and go *)
BatchArgs ==
    UNION {[1..n -> [id : {1, 2}, karma : {700}]] : n \in 0..MaxBatch}

NextBatch ==
    \/ AddNode("A", "concept", 500)
    \/ \E id \in IdRange : DeleteNode(id)
    \/ \E u \in BatchArgs, f \in 0..MaxBatch : f <= Len(u) /\ BatchUpdateKarma(u, f)
    \/ Tick

SpecBatch == Init /\ [][NextBatch]_vars

(* the streaming buffer over a store whose nodes come and go; every flush
   may meet a store error at any of its steps *)
StreamIds == {1, 2}
FailIdxArgs == 0..2
StreamBatchArgs ==
    {<<>>,
     <<[nodeId |-> 2, delta |-> 250], [nodeId |-> 1, delta |-> 250]>>}

NextStream ==
    \/ generateId \in StreamIds /\ AddNode(IF idSeq = 0 THEN "A" ELSE "B", "concept", 500)
    \/ \E id \in StreamIds : DeleteNode(id)
    \/ \E d \in DeltaArgs, f \in FailPoints, i \in FailIdxArgs :
          BufferKarmaUpdate(1, d, f, i)
    \/ \E u \in StreamBatchArgs, f \in FailPoints, i \in FailIdxArgs :
          BufferBatchUpdates(u, f, i)
    \/ \E f \in FailPoints, i \in FailIdxArgs : Flush(f, i)
    \/ \E f \in FailPoints, i \in FailIdxArgs : TimerFlush(f, i)
    \/ \E f \in FailPoints, i \in FailIdxArgs : Close(f, i)
    \/ StopAutoFlush
    \/ ClearBuffer
    \/ RebuildIndex

SpecStream == Init /\ [][NextStream]_vars

(* the signature cache next to a graph that changes under it *)
RandomArgs == {<<0, 0, 0, 0, 0, 0, 0, 0>>, <<1, 1, 1, 1, 1, 1, 1, 1>>}
CenterIds == {1}

NextHSGE ==
    \/ \E t \in Types : AddNode("A", t, 500)
    \/ \E s \in IdRange, t \in IdRange, r \in Relations : AddEdge(s, t, r, One, 500)
    \/ \E id \in IdRange : DeleteEdge(id)
    \/ \E id \in IdRange : DeleteNode(id)
    \/ \E id \in IdRange : UpdateNode(id, [type |-> "entity"])
    \/ \E id \in CenterIds, h \in HopsArgs, rnd \in RandomArgs :
          EncodeNodeStructure(id, h, rnd)
    \/ \E id \in CenterIds, rnd \in RandomArgs : UpdateSignature(id, rnd)
    \/ ClearCache

SpecHSGE == Init /\ [][NextHSGE]_vars

-----------------------------------------------------------------------------
(* Claims *)

(* C1: after any sequence of addNode, addEdge, deleteNode, deleteEdge,
   pruneByKarma and runCalibration every stored edge's sourceId and targetId
   name nodes that exist in the store; deleteNode(id) leaves no edge whose
   source or target is id. *)
C1_ReferentialIntegrity ==
    /\ \A e \in DOMAIN edges :
          edges[e].sourceId \in DOMAIN nodes /\ edges[e].targetId \in DOMAIN nodes
    /\ ret.op = "deleteNode" =>
          \A e \in DOMAIN edges : ret.args[1] \notin {edges[e].sourceId, edges[e].targetId}

(* deleteNode has just removed a node that had an incident edge *)
C1_Witness ==
    ret.op = "deleteNode" /\ ret.val = 1 /\ ret.args[2] > 0

(* C2 as stated: addEdge with a sourceId or targetId that names no node
   fails with a ReferenceError and leaves nodes and edges as they were. *)
C2_Original ==
    [][(ret'.op = "addEdge"
        /\ (ret'.args[1] \notin DOMAIN nodes \/ ret'.args[2] \notin DOMAIN nodes))
       => (err' = "ReferenceError" /\ nodes' = nodes /\ edges' = edges)]_vars

(* C2 as amended: addEdge with a sourceId or targetId that names no node
   fails with the storage engine's SqliteError (the foreign-key constraint),
   and leaves nodes and edges as they were. *)
C2_AddEdgeDanglingFails ==
    [][(ret'.op = "addEdge"
        /\ (ret'.args[1] \notin DOMAIN nodes \/ ret'.args[2] \notin DOMAIN nodes))
       => (err' = "SqliteError" /\ nodes' = nodes /\ edges' = edges)]_vars

(* an addEdge with a dangling endpoint has just failed, next to an edge
   that was stored *)
C2_Witness ==
    /\ ret.op = "addEdge" /\ err = "SqliteError"
    /\ (ret.args[1] \notin DOMAIN nodes \/ ret.args[2] \notin DOMAIN nodes)
    /\ DOMAIN edges # {}

(* C3: after any update operation, with any argument values, every stored
   node weight and every stored edge karma lies in [0,1]. *)
C3_KarmaBounds ==
    /\ \A n \in DOMAIN nodes : nodes[n].karma >= 0 /\ nodes[n].karma <= One
    /\ \A e \in DOMAIN edges : edges[e].karma >= 0 /\ edges[e].karma <= One

(* the updates of the batch that name node n *)
Naming(updates, ns, n) == {i \in 1..Len(updates) : updates[i].id = n}

LastNaming(updates, ns, n) ==
    CHOOSE i \in Naming(updates, ns, n) : \A j \in Naming(updates, ns, n) : j <= i

BatchCommitted(updates) ==
    /\ DOMAIN nodes' = DOMAIN nodes
    /\ \A n \in DOMAIN nodes :
          IF Naming(updates, nodes, n) = {}
          THEN nodes'[n] = nodes[n]
          ELSE /\ nodes'[n].karma = updates[LastNaming(updates, nodes, n)].karma
               /\ nodes'[n].updatedAt = now

(* C9 as stated: batchUpdateKarma is atomic: if a write fails no node is
   changed; if none fails every update naming an existing node is committed
   and the returned count is the number of nodes changed. *)
C9_Original ==
    [][ret'.op = "batchUpdateKarma" =>
        IF err' # "none"
        THEN nodes' = nodes
        ELSE /\ BatchCommitted(ret'.args[1])
             /\ ret'.val = Cardinality({n \in DOMAIN nodes :
                                          Naming(ret'.args[1], nodes, n) # {}})]_vars

(* C9 as amended: ... and the returned count is the number of updates in
   the batch that name an existing node (a node named twice counts twice). *)
C9_BatchAtomic ==
    [][ret'.op = "batchUpdateKarma" =>
        IF err' # "none"
        THEN nodes' = nodes
        ELSE /\ BatchCommitted(ret'.args[1])
             /\ ret'.val = Cardinality({i \in 1..Len(ret'.args[1]) :
                                          ret'.args[1][i].id \in DOMAIN nodes})]_vars

(* a batch whose second write failed after its first had changed a node,
   and the store shows nothing of it *)
C9_Witness ==
    /\ ret.op = "batchUpdateKarma" /\ err = "SqliteError"
    /\ Len(ret.args[1]) = 2
    /\ ret.args[1][1].id \in DOMAIN nodes
    /\ nodes[ret.args[1][1].id].karma # ret.args[1][1].karma

(* the sum of the deltas the buffer holds for node n, each entry once *)
DeltaSum(buffer, n) ==
    LET idx == {i \in 1..Len(buffer) : buffer[i].nodeId = n}
        sum[S \in SUBSET idx] ==
            IF S = {} THEN 0
            ELSE LET i == CHOOSE x \in S : TRUE
                 IN buffer[i].delta + sum[S \ {i}]
    IN sum[idx]

FlushCallers == {"flush", "timer", "close", "bufferKarmaUpdate", "bufferBatchUpdates"}

(* C4: whenever flush() returns normally, started by the capacity trigger,
   by the timer or by an explicit call, the buffer is empty and for every
   existing node with buffered entries the stored weight equals
   clamp(weight before the flush + sum of that node's buffered deltas, 0, 1),
   each buffered delta counted once. *)
C4_FlushApplies ==
    (flushLog.outcome = "ok" /\ ret.op \in FlushCallers) =>
        /\ karmaBuffer = <<>>
        /\ DOMAIN nodes = DOMAIN flushLog.pre
        /\ \A n \in DOMAIN nodes :
              IF \E i \in 1..Len(flushLog.buffer) : flushLog.buffer[i].nodeId = n
              THEN nodes[n].karma
                       = Clamp01(flushLog.pre[n].karma + DeltaSum(flushLog.buffer, n))
              ELSE nodes[n] = flushLog.pre[n]

(* a flush started by the capacity trigger has returned; it carried two
   deltas for one existing node, and their sum moved the node's weight *)
C4_Witness ==
    /\ flushLog.outcome = "ok" /\ ret.op = "bufferKarmaUpdate"
    /\ Len(flushLog.buffer) = 2
    /\ flushLog.buffer[1].nodeId = flushLog.buffer[2].nodeId
    /\ flushLog.buffer[1].nodeId \in DOMAIN nodes
    /\ nodes[flushLog.buffer[1].nodeId].karma
          # flushLog.pre[flushLog.buffer[1].nodeId].karma

(* the buffer flush() was called on, seen from the call that ran it *)
BufferAtFlush ==
    IF ret'.op = "bufferKarmaUpdate"
    THEN Append(karmaBuffer,
                [nodeId |-> ret'.args[1], delta |-> ret'.args[2],
                 timestamp |-> now, source |-> "user"])
    ELSE IF ret'.op = "bufferBatchUpdates"
    THEN karmaBuffer \o BatchEntries(ret'.args[1])
    ELSE karmaBuffer

(* C5: if the store raises an error during flush(), the error reaches the
   caller and the buffer holds exactly the entries, in the same order, that
   it held before the call. *)
C5_FailedFlushKeepsBuffer ==
    [][flushLog'.outcome = "failed" =>
        /\ err' = "SqliteError"
        /\ karmaBuffer' = BufferAtFlush]_vars

(* a flush of two entries has failed at its index update, after its write
   was committed *)
C5_Witness ==
    /\ flushLog.outcome = "failed" /\ err = "SqliteError"
    /\ Len(karmaBuffer) = 2
    /\ nodes # flushLog.pre

(* C6: if a flush() fails with a store error at any of its steps and the
   caller then calls flush() again and it succeeds, every delta that was
   buffered has been applied to the stored weight exactly once. *)
C6_AppliedOnce ==
    [][(flushLog.outcome = "failed" /\ ret'.op = "flush" /\ flushLog'.outcome = "ok") =>
        \A n \in DOMAIN nodes' :
            (\E i \in 1..Len(karmaBuffer) : karmaBuffer[i].nodeId = n)
                => nodes'[n].karma
                       = Clamp01(flushLog.pre[n].karma + DeltaSum(karmaBuffer, n))]_vars

(* the orders in which the entries of a buffer may have been pushed *)
Orders(buffer) ==
    {p \in [1..Len(buffer) -> 1..Len(buffer)] :
        \A i, j \in 1..Len(buffer) : i # j => p[i] # p[j]}

Reordered(buffer, p) == [i \in 1..Len(buffer) |-> buffer[p[i]]]

(* C7: for deltas held in the buffer together and applied by one flush(),
   the final stored weight of every node is the same for every order in
   which the deltas were buffered. *)
C7_OrderIndependent ==
    flushLog.outcome = "ok" =>
        \A p \in Orders(flushLog.buffer) :
            \A n \in DOMAIN nodes :
                FlushedNodes(flushLog.pre, Reordered(flushLog.buffer, p))[n].karma
                    = nodes[n].karma

(* a flush has applied two different deltas for one node whose weight was
   at the upper limit, so that clamping between the two would show *)
C7_Witness ==
    /\ flushLog.outcome = "ok"
    /\ Len(flushLog.buffer) = 2
    /\ flushLog.buffer[1].nodeId = flushLog.buffer[2].nodeId
    /\ flushLog.buffer[1].delta # flushLog.buffer[2].delta
    /\ flushLog.buffer[1].nodeId \in DOMAIN nodes
    /\ flushLog.pre[flushLog.buffer[1].nodeId].karma = One

(* C8: whenever a bufferKarmaUpdate call brings the number of buffered
   entries to bufferCapacity, flush() runs before that call returns; after
   any bufferKarmaUpdate or bufferBatchUpdates call that returns normally
   the buffer holds fewer than bufferCapacity entries. *)
C8_FlushAtCapacity ==
    [][/\ (ret'.op = "bufferKarmaUpdate" /\ Len(karmaBuffer) + 1 = BufferCapacity)
            => flushLog'.outcome # "none"
       /\ (ret'.op \in {"bufferKarmaUpdate", "bufferBatchUpdates"} /\ err' = "none")
            => Len(karmaBuffer') < BufferCapacity]_vars

(* the bufferKarmaUpdate that brought the buffer to bufferCapacity has
   returned, and the flush it ran wrote a node *)
C8_Witness ==
    /\ ret.op = "bufferKarmaUpdate" /\ err = "none"
    /\ flushLog.outcome = "ok"
    /\ Len(flushLog.buffer) = BufferCapacity
    /\ nodes # flushLog.pre

(* C10: after any addNode, addEdge, deleteEdge, deleteNode or updateNode
   that changes a node or an edge inside the hops-neighbourhood from which
   the cached signature of (nodeId, hops) was computed, the next
   encodeNodeStructure(nodeId, hops) does not return that cached signature:
   its nodeCount, edgeCount, tags and vector are computed from the current
   graph. *)
C10_CacheCoherent ==
    (ret.op = "encodeNodeStructure" /\ ret.args[1] \in DOMAIN nodes
                                    /\ ret.val.nodeCount > 0) =>
        \E rnd \in Vectors :
            ret.val = ComputeSignature(nodes, edges, ret.args[1], ret.args[2], rnd)

(* C11: for every graph state and every (nodeId, hops), the vector that
   encodeNodeStructure computes from an empty cache entry equals the vector
   of any other encoder run on the same graph state, whatever the random
   source gives: two runs return bit-identical vectors, including for a node
   with no edges and for a neighbourhood with an even number of edges. *)
C11_Reproducible ==
    [][(/\ ret'.op = "encodeNodeStructure"
        /\ ret'.args[1] \in DOMAIN nodes
        /\ ~CacheLookup(signatureCache, <<ret'.args[1], ret'.args[2]>>)
        /\ CacheLookup(signatureCache', <<ret'.args[1], ret'.args[2]>>))
          => \A rnd \in RandomArgs :
                ret'.val.vector =
                    ComputeSignature(nodes, edges, ret'.args[1], ret'.args[2], rnd).vector]_vars

(* the calibrator over a store whose nodes come, are accessed and age *)
CalibKarmaArgs == {50, 500, 700, 950}
DaysAhead == 2

(* the weights of the nodes the callers access: as added, or consolidated *)
AccessKarmaArgs == CalibKarmaArgs \cup {One}
TopK == 1

(* an event recorded when the clock started *)
OldEvent == [success |-> TRUE, timestamp |-> 0]

(* the histories importHistory is given: none, and one longer than
   recordAccess would keep *)
ImportArgs == {<<>>, (1 :> [i \in 1..(HistoryLimit + 1) |-> OldEvent])}

NextCalib ==
    \/ \E k \in CalibKarmaArgs :
          generateId \in CenterIds /\ AddNode("A", "concept", k)
    \/ \E s \in BOOLEAN :
          /\ 1 \in DOMAIN nodes => nodes[1].karma \in AccessKarmaArgs
          /\ RecordAccess(1, s)
    \/ \E h \in ImportArgs : ImportHistory(h)
    \/ ClearHistory
    \/ RunCalibration
    \/ Tick
    \/ \E id \in CenterIds : PredictForgetting(id, DaysAhead)
    \/ \E id \in CenterIds : GetOptimalReviewTime(id)
    \/ GetNodesNeedingReview(TopK)
    \/ GetStats

SpecCalib == Init /\ [][NextCalib]_vars

(* C12 as stated: runCalibration deletes every node whose recomputed weight
   is below pruneThreshold, sets to 1.0 the stored weight of every node
   whose recomputed weight is above consolidateThreshold, and stores the
   recomputed weight for every other node. *)
C12_Original ==
    [][ret'.op = "runCalibration" =>
        \A n \in DOMAIN nodes :
            LET newKarma == NewKarma(n) IN
            /\ newKarma < pruneThreshold => n \notin DOMAIN nodes'
            /\ newKarma >= pruneThreshold => n \in DOMAIN nodes'
            /\ (newKarma >= pruneThreshold /\ newKarma > consolidateThreshold)
                  => nodes'[n].karma = One
            /\ (newKarma >= pruneThreshold /\ newKarma <= consolidateThreshold)
                  => nodes'[n].karma = newKarma]_vars

(* C12: runCalibration recomputes the weight of every node it reads and
   then: deletes every node whose recomputed weight is below
   pruneThreshold, sets to 1.0 the stored weight of every node whose
   recomputed weight is above consolidateThreshold, stores the recomputed
   weight for every other node whose recomputed weight differs from the
   stored one by more than 0.01, and leaves the remaining nodes (weight and
   updatedAt) as they are. *)
C12_CalibrationApplies ==
    [][ret'.op = "runCalibration" =>
        \A n \in DOMAIN nodes :
            LET newKarma == NewKarma(n)
                between == newKarma >= pruneThreshold /\ newKarma <= consolidateThreshold
                far == newKarma - nodes[n].karma > DecayBand
                           \/ nodes[n].karma - newKarma > DecayBand
            IN
            /\ newKarma < pruneThreshold => n \notin DOMAIN nodes'
            /\ newKarma >= pruneThreshold => n \in DOMAIN nodes'
            /\ (newKarma >= pruneThreshold /\ newKarma > consolidateThreshold)
                  => nodes'[n].karma = One /\ nodes'[n].updatedAt = now
            /\ (between /\ far)
                  => nodes'[n].karma = newKarma /\ nodes'[n].updatedAt = now
            /\ (between /\ ~far) => nodes'[n] = nodes[n]]_vars

(* runCalibration has returned and left a node whose recomputed weight is
   not the stored one: the two are within 0.01 of each other *)
C12_Witness ==
    /\ ret.op = "runCalibration"
    /\ \E n \in DOMAIN nodes :
          /\ nodes[n].updatedAt < now
          /\ NewKarma(n) # nodes[n].karma
          /\ NewKarma(n) >= pruneThreshold /\ NewKarma(n) <= consolidateThreshold

(* C13: after any sequence of calibrator operations (recordAccess,
   importHistory, clearHistory, runCalibration), no node's access history
   holds more events than recordAccess keeps (100 in the source), and after
   recordAccess the history ends with the event just recorded. *)
C13_HistoryBounded ==
    /\ \A id \in DOMAIN accessHistory : Len(accessHistory[id]) <= HistoryLimit
    /\ ret.op = "recordAccess" =>
          /\ ret.args[1] \in DOMAIN accessHistory
          /\ Len(accessHistory[ret.args[1]]) > 0
          /\ accessHistory[ret.args[1]][Len(accessHistory[ret.args[1]])].success
                = ret.args[2]

(* C14: a node is deleted for low weight or raised to the maximum weight
   for high weight only inside runCalibration: recordAccess,
   predictForgetting, getOptimalReviewTime, getNodesNeedingReview and
   getStats delete no node and no edge, and leave below 1.0 every weight
   that was below 1.0, whatever the node's weight. *)
C14_OnlyCalibrationTransitions ==
    [][ret'.op \in {"recordAccess", "predictForgetting", "getOptimalReviewTime",
                    "getNodesNeedingReview", "getStats"} =>
        /\ DOMAIN nodes' = DOMAIN nodes
        /\ edges' = edges
        /\ \A n \in DOMAIN nodes : nodes[n].karma < One => nodes'[n].karma < One]_vars

(* a successful access of a node above consolidateThreshold has been
   recorded, and the node is still below 1.0 *)
C14_Witness ==
    /\ ret.op = "recordAccess" /\ ret.args[2]
    /\ ret.args[1] \in DOMAIN nodes
    /\ nodes[ret.args[1]].karma > consolidateThreshold
    /\ nodes[ret.args[1]].karma < One
    /\ nodes[ret.args[1]].updatedAt = now

(* C15: predictForgetting and getOptimalReviewTime leave the store and the
   calibrator unchanged: no node weight, no updatedAt timestamp, no edge
   and no access history differs after the call, for existing and for
   missing node ids. *)
C15_ReadOnly ==
    [][ret'.op \in {"predictForgetting", "getOptimalReviewTime"} =>
        /\ nodes' = nodes
        /\ edges' = edges
        /\ accessHistory' = accessHistory
        /\ DOMAIN accessHistory' = DOMAIN accessHistory]_vars

(* predictForgetting has returned its predictions for a node that exists
   and has no access history *)
C15_Witness ==
    /\ ret.op = "predictForgetting"
    /\ ret.args[1] \in DOMAIN nodes
    /\ ret.args[1] \notin DOMAIN accessHistory
    /\ Len(ret.val) = DaysAhead + 1
    /\ ret.val[1] = nodes[ret.args[1]].karma

-----------------------------------------------------------------------------
(* HDCEngine's vector operations, on engines of several dimensionalities.
   The vectors in play are drawn when the behaviour starts and carried in
   ret.args as <<dimensions, a, b, c>>. *)

(* an engine whose vectors end with unused bits, and one without *)
DimensionArgs == {4, 8}

ZeroVector == [i \in 1..ByteBits |-> 0]
OnesVector == [i \in 1..ByteBits |-> 1]

(* what generateRandomVector can give as second and third vector *)
SecondArgs == {ZeroVector, OnesVector, generateDeterministicVector("A"),
               generateDeterministicVector("causes")}
ThirdArgs == {[i \in 1..ByteBits |-> IF i = 1 THEN 0 ELSE 1],
              generateDeterministicVector("is_a")}

InitHDC ==
    \E d \in DimensionArgs, a \in VectorsOf(ByteBits), b \in SecondArgs, c \in ThirdArgs :
        InitState([p \in Tables \X HashFunctions |-> ZeroVector],
                  Ret("engine", <<d, a, b, c>>, 0))

HdcFrame ==
    /\ err' = "none"
    /\ passLog' = <<>>
    /\ flushLog' = NoFlush
    /\ UNCHANGED <<storeVars, now, accessHistory, streamVars, signatureCache,
                   symbolCodebook, relationCodebook, asyncVars, serviceVars>>

Bind ==
    /\ ret' = Ret("bind", ret.args, bind(ret.args[2], ret.args[3]))
    /\ HdcFrame

(* unbind(bound, a), bound the vector bind has just returned *)
Unbind ==
    /\ ret.op = "bind"
    /\ ret' = Ret("unbind", ret.args, unbind(ret.val, ret.args[2]))
    /\ HdcFrame

(* bind(bound, a) *)
BindAgain ==
    /\ ret.op = "bind"
    /\ ret' = Ret("bindAgain", ret.args, bind(ret.val, ret.args[2]))
    /\ HdcFrame

Similarity ==
    /\ ret' = Ret("similarity", ret.args,
                  similarity(ret.args[1], ret.args[2], ret.args[3]))
    /\ HdcFrame

(* the vectors bundle is given: the first k of a, b, c, bind(a, b) and
   bind(a, c) *)
BundleCounts == {1, 2, 3, 4, 5}

BundleInputs(args, k) ==
    [e \in 1..k |-> CASE e <= 3 -> args[e + 1]
                      [] e = 4 -> bind(args[2], args[3])
                      [] OTHER -> bind(args[2], args[4])]

(* bundle(vectors), k vectors *)
Bundle(k, coin) ==
    /\ ret' = Ret("bundle", ret.args,
                  [k |-> k,
                   vector |-> bundleOf(ret.args[1], BundleInputs(ret.args, k), coin)])
    /\ HdcFrame

(* bundle(vectors) of k copies of the first vector *)
BundleCopies(k, coin) ==
    /\ ret' = Ret("bundleCopies", ret.args,
                  [k |-> k,
                   vector |-> MajorityVote(ret.args[1], k,
                                           [i \in DOMAIN ret.args[2] |->
                                               IF ret.args[2][i] = 1 THEN k ELSE 0],
                                           coin)])
    /\ HdcFrame

(* as many vectors as a bit count can tell from none *)
CopiesArgs == {CounterModulus}

NextHDC ==
    \/ Bind
    \/ Unbind
    \/ BindAgain
    \/ Similarity
    \/ \E k \in BundleCounts, coin \in RandomArgs : Bundle(k, coin)
    \/ \E k \in CopiesArgs, coin \in RandomArgs :
          /\ ret = Ret("engine", <<ByteBits, OnesVector, ZeroVector, ret.args[4]>>, 0)
          /\ BundleCopies(k, coin)

SpecHDC == InitHDC /\ [][NextHDC]_vars

(* C16: for all vectors a and b of the engine's width, unbind(bind(a, b), a)
   is bit-identical to b (similarity exactly 1.0), and likewise
   bind(bind(a, b), a) equals b. *)
C16_UnbindRestores ==
    ret.op \in {"unbind", "bindAgain"} =>
        /\ ret.val = ret.args[3]
        /\ similarity(ret.args[1], ret.val, ret.args[3]).num
              = similarity(ret.args[1], ret.val, ret.args[3]).den

(* unbind has returned for two vectors that differ and are not each
   other's complement *)
C16_Witness ==
    /\ ret.op = "unbind"
    /\ hammingDistance(ret.args[2], ret.args[3]) \in 1..(ByteBits - 1)
    /\ ret.val = ret.args[3]

-----------------------------------------------------------------------------
(* HDCEngine's symbol codebook under lookups, imports and resets *)

GetSymbolVector(symbol) ==
    /\ UNCHANGED <<relationCodebook, asyncVars>>
    /\ symbolCodebook' = Learned(symbolCodebook, {symbol})
    /\ ret' = Ret("getSymbolVector", <<symbol>>, CodebookVector(symbolCodebook, symbol))
    /\ err' = "none"
    /\ passLog' = <<>>
    /\ flushLog' = NoFlush
    /\ UNCHANGED <<storeVars, now, accessHistory, streamVars, signatureCache,
                   serviceVars>>

(* encode(text): the vector of getSymbolVector(text) *)
Encode(text) ==
    /\ UNCHANGED <<relationCodebook, asyncVars>>
    /\ symbolCodebook' = Learned(symbolCodebook, {text})
    /\ ret' = Ret("encode", <<text>>, CodebookVector(symbolCodebook, text))
    /\ err' = "none"
    /\ passLog' = <<>>
    /\ flushLog' = NoFlush
    /\ UNCHANGED <<storeVars, now, accessHistory, streamVars, signatureCache,
                   serviceVars>>

(* importCodebook: symbolCodebook.set(symbol, vector) for every entry *)
ImportCodebook(codebook) ==
    /\ UNCHANGED <<relationCodebook, asyncVars>>
    /\ symbolCodebook' = codebook @@ symbolCodebook
    /\ ret' = Ret("importCodebook", <<>>, 0)
    /\ err' = "none"
    /\ passLog' = <<>>
    /\ flushLog' = NoFlush
    /\ UNCHANGED <<storeVars, now, accessHistory, streamVars, signatureCache,
                   serviceVars>>

(* reset: symbolCodebook.clear() *)
Reset ==
    /\ symbolCodebook' = <<>>
    /\ relationCodebook' = <<>>
    /\ UNCHANGED asyncVars
    /\ ret' = Ret("reset", <<>>, 0)
    /\ err' = "none"
    /\ passLog' = <<>>
    /\ flushLog' = NoFlush
    /\ UNCHANGED <<storeVars, now, accessHistory, streamVars, signatureCache,
                   serviceVars>>

(* encodeTriple(source, relation, target), then the two unbind calls of
   querySource with the relation vector and the vector of the source *)
RecoverTarget(source, relation, target) ==
    LET tripleVec == encodeTriple(source, relation, target)
        unboundRelation == unbind(tripleVec, RelationVector(relation))
    IN  /\ symbolCodebook' = Learned(symbolCodebook, {source, target})
        /\ relationCodebook' = LearnedRelations(relationCodebook, {relation})
        /\ UNCHANGED asyncVars
        /\ ret' = Ret("recoverTarget", <<source, relation, target>>,
                      unbind(unboundRelation, SymbolVector(source)))
        /\ err' = "none"
        /\ passLog' = <<>>
        /\ flushLog' = NoFlush
        /\ UNCHANGED <<storeVars, now, accessHistory, streamVars, signatureCache,
                       serviceVars>>

Symbols == Labels \cup Types

(* a pre-registered meta-relation and a relation registered on first use *)
TripleRelations == {"is_a", "likes"}

(* the codebooks importCodebook is given: one exported by an engine of the
   same seed, and one made elsewhere *)
CodebookArgs ==
    {("B" :> generateDeterministicVector("B")),
     ("A" :> [i \in 1..ByteBits |-> 0])}

NextCodebook ==
    \/ \E s \in Symbols : GetSymbolVector(s)
    \/ \E s \in Symbols : Encode(s)
    \/ \E cb \in CodebookArgs : ImportCodebook(cb)
    \/ Reset
    \/ \E s \in Labels, t \in Labels, r \in TripleRelations : RecoverTarget(s, r, t)

SpecCodebook == Init /\ [][NextCodebook]_vars

(* C17: for every symbol s and fixed seed, getSymbolVector(s) (and
   encode(s)) returns the same bit vector on every call on one engine,
   whatever other engine operations ran in between: the vector a fresh
   engine of the same dimensions and seed returns. *)
C17_SymbolDeterministic ==
    ret.op \in {"getSymbolVector", "encode"} =>
        ret.val = generateDeterministicVector(ret.args[1])

(* the inputs of the bundle just made, and the similarity numerators of the
   result to the first n of them, added up *)
Bundled == BundleInputs(ret.args, ret.val.k)

RECURSIVE SimilaritySum(_)
SimilaritySum(n) ==
    IF n = 0 THEN 0
    ELSE similarity(ret.args[1], ret.val.vector, Bundled[n]).num + SimilaritySum(n - 1)

BundledDistinct ==
    \A e, f \in DOMAIN Bundled : e # f => Bundled[e] # Bundled[f]

(* C18 as stated: bundling k >= 3 distinct vectors yields a result whose
   similarity to each of the input vectors is greater than 0.5. *)
C18_Original ==
    (ret.op = "bundle" /\ ret.val.k >= 3 /\ BundledDistinct) =>
        \A e \in DOMAIN Bundled :
            2 * similarity(ret.args[1], ret.val.vector, Bundled[e]).num
                > similarity(ret.args[1], ret.val.vector, Bundled[e]).den

(* C18: bundling an odd number k >= 3 of vectors yields a result that
   carries, at every one of the engine's dimensions, the bit that more than
   half of the inputs carry; on an engine whose dimensionality is a multiple
   of 8 its similarities to the k inputs therefore average more than 0.5. *)
C18_BundleMajority ==
    (ret.op = "bundle" /\ ret.val.k >= 3 /\ ret.val.k % 2 = 1) =>
        /\ \A i \in 1..ret.args[1] :
              2 * Cardinality({e \in DOMAIN Bundled : Bundled[e][i] = ret.val.vector[i]})
                  > ret.val.k
        /\ ret.args[1] % ByteBits = 0 =>
              2 * SimilaritySum(ret.val.k) > ret.val.k * ret.args[1]

(* three distinct vectors have been bundled on an engine of 8 dimensions,
   and the result's similarity to one of them is 0.5 or less *)
C18_Witness ==
    /\ ret.op = "bundle" /\ ret.val.k = 3
    /\ ret.args[1] = ByteBits
    /\ BundledDistinct
    /\ \E e \in DOMAIN Bundled :
          2 * similarity(ret.args[1], ret.val.vector, Bundled[e]).num
              <= similarity(ret.args[1], ret.val.vector, Bundled[e]).den

(* C19: for every engine dimensionality D and all vectors a, b produced by
   that engine, similarity(a, b) = 1 - hamming(a, b) / D lies in [0, 1] and
   equals 1.0 when a and b are bit-identical. *)
C19_SimilarityRange ==
    ret.op = "similarity" =>
        /\ ret.val.num >= 0
        /\ ret.val.num <= ret.val.den
        /\ ret.args[2] = ret.args[3] => ret.val.num = ret.val.den

-----------------------------------------------------------------------------
(* GraphManager's ids as generateId makes them: the clock reading and the
   characters drawn from Math.random().  (generateId above is the same
   function under the assumption that no draw repeats.) *)

(* what Math.random().toString(36).substring(2, 11) can give *)
RandomParts == {"k3f9x2m1q", "z8c4v7b2n"}

generateIdDrawn(random) == <<now, random>>

DrawnIds == (0..MaxNow) \X RandomParts

(* id TEXT PRIMARY KEY: the INSERT fails when the id is in the table *)
PrimaryKeyFree(ns, id) == id \notin DOMAIN ns

(* addNode with the random part of its id drawn as random *)
AddNodeDrawn(random, label, type, karma) ==
    LET id == generateIdDrawn(random) IN
    /\ IF PrimaryKeyFree(nodes, id)
       THEN /\ nodes' = (id :> NodeRow(label, type, karma)) @@ nodes
            /\ err' = "none"
            /\ ret' = Ret("addNode", <<>>, id)
       ELSE /\ nodes' = nodes
            /\ err' = "SqliteError"
            /\ ret' = Ret("addNode", <<>>, 0)
    /\ passLog' = <<>>
    /\ flushLog' = NoFlush
    /\ UNCHANGED <<edges, idSeq, now, accessHistory, streamVars, signatureCache,
                   symbolCodebook, relationCodebook, asyncVars, serviceVars>>

NextIds ==
    \/ \E r \in RandomParts, l \in Labels : AddNodeDrawn(r, l, "concept", One)
    \/ \E id \in DrawnIds : DeleteNode(id)
    \/ Tick

SpecIds == Init /\ [][NextIds]_vars

(* C20: no two nodes in the store ever share an id, and an id that was
   assigned to a node is never assigned again by addNode after that node
   was deleted: the addNode that follows a deleteNode does not return the
   deleted node's id. *)
C20_IdsNeverReused ==
    [][(/\ ret.op = "deleteNode" /\ ret.val = 1
        /\ ret'.op = "addNode" /\ err' = "none")
          => ret'.val # ret.args[1]]_vars

-----------------------------------------------------------------------------
(* GraphManager's node rows: what addNode writes, updateNode changes and
   getNode reads back.  An embedding is a Float32Array, here the sequence of
   its elements, each the four bytes it occupies. *)

FloatBytes == 4

(* Buffer.from(typedArray): one byte per element *)
BufferFromElements(embedding) ==
    [i \in 1..Len(embedding) |-> embedding[i][1]]

(* Buffer.from(embedding.buffer, byteOffset, byteLength): the bytes of the
   elements, in memory order; an element is the tuple of its four bytes *)
EmbeddingBytes(embedding) ==
    [i \in 1..(FloatBytes * Len(embedding)) |->
        embedding[((i - 1) \div FloatBytes) + 1][((i - 1) % FloatBytes) + 1]]

(* new Float32Array(buf.buffer.slice(byteOffset, byteOffset + byteLength)) *)
EmbeddingOfBytes(buf) ==
    [i \in 1..(Len(buf) \div FloatBytes) |->
        [k \in 1..FloatBytes |-> buf[FloatBytes * (i - 1) + k]]]

(* rowToNode *)
rowToNode(id, row) ==
    [id |-> id, label |-> row.label, type |-> row.type, karma |-> row.karma,
     embedding |-> IF row.embedding = Absent THEN Absent
                   ELSE Some(EmbeddingOfBytes(row.embedding[1])),
     metadata |-> IF row.metadata = Null THEN Absent
                  ELSE Some(JsonParse(row.metadata)),
     createdAt |-> row.createdAt, updatedAt |-> row.updatedAt]

(* addNode(node), node a record with label and any of type, karma,
   embedding, metadata; what it returns is the node object made of the
   caller's values *)
Given(node, field) == IF field \in DOMAIN node THEN Some(node[field]) ELSE Absent

AddNodeObject(node) ==
    LET type == IF Given(node, "type") \in {Absent, Some("")} THEN "concept"
                ELSE node.type
        karma == IF Given(node, "karma") = Absent THEN One ELSE node.karma
        embedding == Given(node, "embedding")
        metadata == Given(node, "metadata")
    IN /\ idSeq < MaxIds
       /\ nodes' = (generateId :>
                      NodeRowWith(node.label, type, karma,
                                  IF embedding = Absent THEN Absent
                                  ELSE Some(EmbeddingBytes(embedding[1])),
                                  IF metadata = Absent THEN Null
                                  ELSE JsonStringify(metadata[1]))) @@ nodes
       /\ idSeq' = generateId
       /\ err' = "none"
       /\ ret' = Ret("addNode", <<>>,
                     [id |-> generateId, label |-> node.label, type |-> type,
                      karma |-> karma, embedding |-> embedding,
                      metadata |-> metadata, createdAt |-> now, updatedAt |-> now])
       /\ passLog' = <<>>
       /\ flushLog' = NoFlush
       /\ UNCHANGED <<edges, now, accessHistory, streamVars, signatureCache,
                      symbolCodebook, relationCodebook, asyncVars, serviceVars>>

(* getNode(id): SELECT * FROM nodes WHERE id = ? *)
GetNode(id) ==
    /\ err' = "none"
    /\ ret' = Ret("getNode", <<id>>,
                  IF id \in DOMAIN nodes THEN Some(rowToNode(id, nodes[id]))
                  ELSE Absent)
    /\ passLog' = <<>>
    /\ flushLog' = NoFlush
    /\ UNCHANGED <<storeVars, now, accessHistory, streamVars, signatureCache,
                   symbolCodebook, relationCodebook, asyncVars, serviceVars>>

(* embeddings given to addNode: none, empty, [1, -1], a NaN with a payload,
   and [-0, the smallest denormal] *)
EmbeddingArgs ==
    {<<>>,
     <<<<0, 0, 128, 63>>, <<0, 0, 128, 191>>>>,
     <<<<1, 0, 192, 127>>>>,
     <<<<0, 0, 0, 128>>, <<1, 0, 0, 0>>>>}

NodeArgs ==
    {[label |-> "A"], [label |-> "A", type |-> "", karma |-> 500,
                       metadata |-> [score |-> "NaN"]]}
    \cup {[label |-> "A", type |-> "entity", karma |-> One, embedding |-> e,
           metadata |-> [tag |-> "test"]] : e \in EmbeddingArgs}

NodeUpdateArgs ==
    {<<>>, [karma |-> 500], [type |-> "entity"], [label |-> "B", karma |-> 500],
     [metadata |-> [tag |-> "test"]]}

NextNode ==
    \/ \E node \in NodeArgs : generateId \in CenterIds /\ AddNodeObject(node)
    \/ generateId \in StreamIds \ CenterIds /\ AddNodeObject([label |-> "A"])
    \/ \E id \in StreamIds, u \in NodeUpdateArgs : UpdateNode(id, u)
    \/ \E id \in StreamIds : GetNode(id)
    \/ AddEdge(1, 2, "is_a", One, 500)
    \/ Tick

SpecNode == Init /\ [][NextNode]_vars

(* C21: updateNode(id, fields) changes only the named fields and updatedAt
   of node id: it never changes any node's id, createdAt or embedding,
   never changes another node or any edge, and when id names no node it
   returns false and leaves the store unchanged. *)
C21_UpdateNodeFrame ==
    [][ret'.op = "updateNode" =>
        LET id == ret'.args[1]
            fields == ret'.args[2]
        IN /\ edges' = edges
           /\ DOMAIN nodes' = DOMAIN nodes
           /\ \A n \in DOMAIN nodes \ {id} : nodes'[n] = nodes[n]
           /\ id \in DOMAIN nodes =>
                 /\ nodes'[id].createdAt = nodes[id].createdAt
                 /\ nodes'[id].embedding = nodes[id].embedding
                 /\ \A f \in {"label", "type", "karma", "metadata"} \ DOMAIN fields :
                       nodes'[id][f] = nodes[id][f]
                 /\ \A f \in {"label", "type", "karma"} \cap DOMAIN fields :
                       nodes'[id][f] = fields[f]
           /\ id \notin DOMAIN nodes => ret'.val = 0 /\ nodes' = nodes]_vars

(* updateNode has changed the label and weight of a node that carries an
   embedding and was created earlier *)
C21_Witness ==
    /\ ret.op = "updateNode" /\ ret.val = 1
    /\ DOMAIN ret.args[2] = {"label", "karma"}
    /\ nodes[ret.args[1]].label = "B"
    /\ nodes[ret.args[1]].embedding # Absent
    /\ nodes[ret.args[1]].createdAt < nodes[ret.args[1]].updatedAt
    /\ DOMAIN edges # {}

(* C22: for every embedding e, getNode(addNode({..., embedding: e}).id)
   .embedding has the same length and the same element values as e, bit for
   bit, and the other stored fields read back equal to those written: label,
   type, karma and the timestamps as addNode returned them, metadata as the
   JSON value of the text written. *)
C22_EmbeddingRoundTrip ==
    [][(/\ ret.op = "addNode" /\ err = "none"
        /\ ret'.op = "getNode" /\ ret'.args[1] = ret.val.id)
          => /\ ret'.val # Absent
             /\ LET loaded == ret'.val[1]
                    written == ret.val
                IN /\ loaded.embedding = written.embedding
                   /\ written.embedding # Absent =>
                         Len(loaded.embedding[1]) = Len(written.embedding[1])
                   /\ loaded.id = written.id
                   /\ loaded.label = written.label
                   /\ loaded.type = written.type
                   /\ loaded.karma = written.karma
                   /\ loaded.createdAt = written.createdAt
                   /\ loaded.updatedAt = written.updatedAt
                   /\ loaded.metadata =
                         IF written.metadata = Absent THEN Absent
                         ELSE Some(JsonParse(JsonStringify(written.metadata[1])))
                   /\ written.metadata = Some([tag |-> "test"])
                         => loaded.metadata = written.metadata]_vars

(* getNode has read back a node whose embedding is one NaN with a payload,
   as written *)
C22_Witness ==
    /\ ret.op = "getNode" /\ ret.val # Absent
    /\ ret.val[1].embedding = Some(<<<<1, 0, 192, 127>>>>)
    /\ nodes[ret.args[1]].embedding = Some(<<1, 0, 192, 127>>)
    /\ ret.val[1].metadata = Some([tag |-> "test"])

-----------------------------------------------------------------------------
(* HSGE.findAnalogous *)

(* the nodes getAllNodes(1000) returns, in an order ORDER BY karma DESC
   allows: nodes of equal karma come in any order *)
KarmaOrders(ns, ids) ==
    {o \in [1..Cardinality(ids) -> ids] :
        /\ \A i, j \in DOMAIN o : i # j => o[i] # o[j]
        /\ \A i, j \in DOMAIN o : i < j => ns[o[i]].karma >= ns[o[j]].karma}

(* the cache once encodeNodeStructure(id) has run for every id in ids, with
   the default hops; rnds[id] is the random source of the run for id *)
EncodedAll(cache, ids, rnds) ==
    [k \in DOMAIN cache \cup {<<n, DefaultHops>> : n \in ids} |->
        IF CacheLookup(cache, k) THEN cache[k]
        ELSE ComputeSignature(nodes, edges, k[1], DefaultHops, rnds[k[1]])]

(* similarity(a, b).similarity >= minSimilarity, minSimilarity in
   thousandths *)
AtLeast(sim, minSimilarity) == One * sim.num >= minSimilarity * sim.den

(* results.sort((a, b) => b.similarity - a.similarity): a stable sort, by
   insertion from the left *)
RECURSIVE InsertBySimilarity(_, _)
InsertBySimilarity(sorted, r) ==
    IF sorted = <<>> THEN <<r>>
    ELSE IF Head(sorted).similarity >= r.similarity
         THEN <<Head(sorted)>> \o InsertBySimilarity(Tail(sorted), r)
         ELSE <<r>> \o sorted

RECURSIVE SortBySimilarity(_)
SortBySimilarity(results) ==
    IF results = <<>> THEN <<>>
    ELSE InsertBySimilarity(SortBySimilarity(SubSeq(results, 1, Len(results) - 1)),
                            results[Len(results)])

(* results.slice(0, topK) with no sort before it *)
SlicedUnsorted(results, topK) == SubSeq(results, 1, Min(topK, Len(results)))

(* sort, then slice(0, topK) *)
Ranked(results, topK) ==
    SubSeq(SortBySimilarity(results), 1, Min(topK, Len(results)))

(* findAnalogous(queryNodeId, topK, minSimilarity); order is the order in
   which getAllNodes returned the nodes *)
FindAnalogous(queryNodeId, topK, minSimilarity, order, rnds) ==
    LET cache == EncodedAll(signatureCache, {queryNodeId} \cup DOMAIN nodes, rnds)
        query == cache[<<queryNodeId, DefaultHops>>]
        sim(n) == similarity(Dimensions, query.vector, cache[<<n, DefaultHops>>].vector)
        candidates == SelectSeq(order, LAMBDA n : n # queryNodeId)
        passing == SelectSeq(candidates, LAMBDA n : AtLeast(sim(n), minSimilarity))
        results == [i \in 1..Len(passing) |->
                      [matchId |-> passing[i], similarity |-> sim(passing[i]).num]]
    IN /\ order \in KarmaOrders(nodes, getAllNodes(nodes, ReviewLimit))
       /\ signatureCache' = cache
       /\ UNCHANGED <<relationCodebook, asyncVars>>
       /\ symbolCodebook' =
             Learned(symbolCodebook,
                     UNION {TripleSymbols(nodes, edges, n, DefaultHops) :
                              n \in {m \in {queryNodeId} \cup DOMAIN nodes :
                                       ~CacheLookup(signatureCache, <<m, DefaultHops>>)}})
       /\ err' = "none"
       /\ ret' = Ret("findAnalogous", <<queryNodeId, topK, minSimilarity>>,
                     Ranked(results, topK))
       /\ passLog' = <<>>
       /\ flushLog' = NoFlush
       /\ UNCHANGED <<storeVars, now, accessHistory, streamVars, serviceVars>>

TopKArgs == {0, 1, 2}
MinSimilarityArgs == {0, 300}
AnalogyIds == 1..3

NextAnalogy ==
    \/ \E k \in {500, 700} : generateId \in AnalogyIds /\ AddNode("A", "concept", k)
    \/ \E s \in AnalogyIds : AddEdge(s, 1, "is_a", One, 500)
    \/ \E q \in CenterIds, topK \in TopKArgs, m \in MinSimilarityArgs,
          rnds \in [AnalogyIds -> RandomArgs] :
          /\ \A n \in AnalogyIds :
                (n \notin DOMAIN nodes \cup {q}
                    \/ CacheLookup(signatureCache, <<n, DefaultHops>>))
                    => rnds[n] = [i \in Bits |-> 0]
          /\ \E order \in KarmaOrders(nodes, DOMAIN nodes) :
                FindAnalogous(q, topK, m, order, rnds)
    \/ ClearCache

SpecAnalogy == Init /\ [][NextAnalogy]_vars

(* the similarity (its numerator, over Dimensions) of the cached signature
   of node n to that of the query of the findAnalogous call just made *)
AnalogySimilarity(n) ==
    similarity(Dimensions,
               signatureCache[<<ret.args[1], DefaultHops>>].vector,
               signatureCache[<<n, DefaultHops>>].vector)

Returned == {ret.val[i].matchId : i \in DOMAIN ret.val}

(* C23: findAnalogous(q, topK, minSimilarity) returns at most topK results,
   each a candidate other than q with its similarity to the query, which is
   at least minSimilarity, in non-increasing order of similarity, and no
   candidate signature that was left out has a similarity to the query
   greater than that of a returned result. *)
C23_FindAnalogousRanked ==
    ret.op = "findAnalogous" =>
        /\ Len(ret.val) <= ret.args[2]
        /\ \A i \in DOMAIN ret.val :
              /\ ret.val[i].matchId \in DOMAIN nodes \ {ret.args[1]}
              /\ ret.val[i].similarity = AnalogySimilarity(ret.val[i].matchId).num
              /\ AtLeast(AnalogySimilarity(ret.val[i].matchId), ret.args[3])
        /\ \A i, j \in DOMAIN ret.val :
              /\ i < j => ret.val[i].similarity >= ret.val[j].similarity
              /\ i # j => ret.val[i].matchId # ret.val[j].matchId
        /\ \A n \in DOMAIN nodes \ (Returned \cup {ret.args[1]}) :
              \A i \in DOMAIN ret.val :
                  AnalogySimilarity(n).num <= ret.val[i].similarity

(* findAnalogous has returned topK = 1 result and left out a candidate that
   passes minSimilarity with a lower similarity *)
C23_Witness ==
    /\ ret.op = "findAnalogous" /\ ret.args[2] = 1 /\ Len(ret.val) = 1
    /\ \E n \in DOMAIN nodes \ (Returned \cup {ret.args[1]}) :
          /\ AtLeast(AnalogySimilarity(n), ret.args[3])
          /\ AnalogySimilarity(n).num < ret.val[1].similarity
          /\ nodes[n].karma > nodes[ret.val[1].matchId].karma

-----------------------------------------------------------------------------
(* HSpecScheduler *)

(* how many tasks the queue holds in the model *)
MaxQueue == 3

(* a Task: its level, priority (1..10) and optional deadline; id, prompt and
   metadata play no part in scheduling *)
Task(level, priority, deadline) ==
    [level |-> level, priority |-> priority, deadline |-> deadline]

(* config.enabledLevels of a scheduler built without a config *)
enabledLevels == {"L3", "PLANNING"}

(* `a.deadline` as a condition: undefined and 0 are falsy *)
Truthy(deadline) == deadline # Absent /\ deadline[1] # 0

(* the comparator of sortQueue: negative when a goes first *)
compareTasks(a, b) ==
    IF Truthy(a.deadline) /\ Truthy(b.deadline)
    THEN a.deadline[1] - b.deadline[1]
    ELSE IF Truthy(a.deadline) THEN -1
    ELSE IF Truthy(b.deadline) THEN 1
    ELSE b.priority - a.priority

(* Array.prototype.sort is stable: task goes behind every task of the sorted
   queue that the comparator does not put after it *)
InsertTask(sorted, task) ==
    LET k == Cardinality({i \in DOMAIN sorted : compareTasks(sorted[i], task) <= 0})
    IN SubSeq(sorted, 1, k) \o <<task>> \o SubSeq(sorted, k + 1, Len(sorted))

RECURSIVE sortQueue(_)
sortQueue(queue) ==
    IF queue = <<>> THEN <<>>
    ELSE InsertTask(sortQueue(SubSeq(queue, 1, Len(queue) - 1)),
                    queue[Len(queue)])

(* decideStrategy *)
AlwaysHSpec(levels, task) == "HSPEC"

decideStrategy(levels, task) ==
    IF task.level \in levels THEN "HSPEC" ELSE "DIRECT"

SchedulerFrame ==
    /\ passLog' = <<>>
    /\ flushLog' = NoFlush
    /\ UNCHANGED <<storeVars, now, accessHistory, streamVars, signatureCache,
                   symbolCodebook, relationCodebook, asyncVars, buckets, clockMs, served>>

(* submit(task): push, then sortQueue *)
Submit(task) ==
    /\ Len(taskQueue) < MaxQueue
    /\ taskQueue' = sortQueue(Append(taskQueue, task))
    /\ err' = "none"
    /\ ret' = Ret("submit", <<task>>, 0)
    /\ SchedulerFrame

(* submitBatch(tasks): push every task, then sortQueue *)
SubmitBatch(tasks) ==
    /\ Len(taskQueue) + Len(tasks) <= MaxQueue
    /\ taskQueue' = sortQueue(taskQueue \o tasks)
    /\ err' = "none"
    /\ ret' = Ret("submitBatch", <<tasks>>, 0)
    /\ SchedulerFrame

(* processNext: null on an empty queue; else shifts the first task and hands
   it to engine.infer with the strategy decided for it; failed: infer throws.
   The value is the dispatch: the task, its strategy and the useHSpec flag
   of the TaskConfig given to the engine *)
ProcessNext(failed) ==
    /\ IF taskQueue = <<>>
       THEN /\ ~failed
            /\ taskQueue' = taskQueue
            /\ err' = "none"
            /\ ret' = Ret("processNext", <<>>, Absent)
       ELSE LET task == Head(taskQueue)
                strategy == decideStrategy(enabledLevels, task)
            IN /\ taskQueue' = Tail(taskQueue)
               /\ err' = IF failed THEN "InferError" ELSE "none"
               /\ ret' = Ret("processNext", <<>>,
                             Some([task |-> task, strategy |-> strategy,
                                   useHSpec |-> (strategy = "HSPEC")]))
    /\ SchedulerFrame

(* clearQueue *)
ClearQueue ==
    /\ taskQueue' = <<>>
    /\ err' = "none"
    /\ ret' = Ret("clearQueue", <<>>, 0)
    /\ SchedulerFrame

Levels == {"L1", "L2", "L3", "PLANNING"}

(* the tasks submitted: one of every level, and L1 tasks of low and high
   priority without a deadline, with the same deadline and with a later one *)
TaskArgs ==
    {Task(l, 5, Absent) : l \in Levels}
        \cup {Task("L1", p, d) : p \in {1, 10}, d \in {Absent, Some(1)}}
        \cup {Task("L1", 10, Some(2))}

TaskBatchArgs == {<<a, b>> : a \in TaskArgs, b \in TaskArgs}

NextScheduler ==
    \/ \E task \in TaskArgs : Submit(task)
    \/ \E tasks \in TaskBatchArgs : SubmitBatch(tasks)
    \/ \E failed \in BOOLEAN : ProcessNext(failed)
    \/ ClearQueue

SpecScheduler == Init /\ [][NextScheduler]_vars

(* the dispatch of the processNext call just made *)
Dispatched == ret.val[1]

(* C24: with the default configuration every task processNext dispatches
   goes out with strategy DIRECT and useHSpec false when its level is L1 or
   L2, and with strategy HSPEC and useHSpec true when its level is L3 or
   PLANNING, whatever else is queued. *)
C24_StrategyByLevel ==
    (ret.op = "processNext" /\ ret.val # Absent) =>
        /\ Dispatched.task.level \in {"L1", "L2"} =>
              Dispatched.strategy = "DIRECT" /\ ~Dispatched.useHSpec
        /\ Dispatched.task.level \in {"L3", "PLANNING"} =>
              Dispatched.strategy = "HSPEC" /\ Dispatched.useHSpec

(* processNext has dispatched an L2 task DIRECT out of a queue that still
   holds an L3 and a PLANNING task *)
C24_Witness ==
    /\ ret.op = "processNext" /\ ret.val # Absent
    /\ Dispatched.task.level = "L2" /\ Dispatched.strategy = "DIRECT"
    /\ {taskQueue[i].level : i \in DOMAIN taskQueue} = {"L3", "PLANNING"}

(* the order C25 states: u goes before t when u has a deadline and t has
   none, when u's deadline is the earlier one, or when the deadlines do not
   separate them and u's priority is higher *)
GoesBefore(u, t) ==
    \/ u.deadline # Absent /\ t.deadline = Absent
    \/ u.deadline # Absent /\ t.deadline # Absent /\ u.deadline[1] < t.deadline[1]
    \/ u.deadline = t.deadline /\ u.priority > t.priority

(* C25: after any submit and submitBatch calls, no task still queued goes
   before the task processNext dispatches, in the order deadline first
   (with before without, earlier before later) and priority second (higher
   first among equal deadlines or none). *)
C25_DeadlineThenPriority ==
    (ret.op = "processNext" /\ ret.val # Absent) =>
        \A i \in DOMAIN taskQueue : ~GoesBefore(taskQueue[i], Dispatched.task)

-----------------------------------------------------------------------------
(* GraphManager.personalizedPageRank *)

(* the limit personalizedPageRank reads the nodes with *)
PageRankLimit == 10000

(* ORDER BY karma DESC leaves the order of rows of equal karma to SQLite *)
AnyTieOrder(ns, ids) == KarmaOrders(ns, ids)

(* the row orders one SELECT ... ORDER BY karma DESC can give on a table:
   SQLite scans the same table the same way, so rows of equal karma come
   back in one order, which the statement does not say *)
RowOrders(ns, ids) == {CHOOSE o \in KarmaOrders(ns, ids) : TRUE}

RECURSIVE SumOf(_, _)
SumOf(f, S) ==
    IF S = {} THEN 0
    ELSE LET x == CHOOSE y \in S : TRUE IN f[x] + SumOf(f, S \ {x})

(* getOutEdges(id): the ids of the edges out of id *)
getOutEdges(es, id) == {e \in DOMAIN es : es[e].sourceId = id}

(* edge.karma * edge.weight *)
EdgeStrength(es, e) == (es[e].karma * es[e].weight) \div One

(* seedSet.has(id) ? x / seedNodeIds.length : 0 *)
SeedShare(seedNodeIds, id, x) ==
    IF \E i \in DOMAIN seedNodeIds : seedNodeIds[i] = id
    THEN x \div Len(seedNodeIds) ELSE 0

(* (1 - alpha) * currentScore * (edge.karma * edge.weight / totalWeight), the
   share of the score of e's source that e carries to its target *)
Contribution(es, scores, alpha, e) ==
    LET out == getOutEdges(es, es[e].sourceId)
        totalWeight == SumOf([x \in out |-> EdgeStrength(es, x)], out)
    IN ((One - alpha) * scores[es[e].sourceId] * EdgeStrength(es, e))
            \div (One * totalWeight)

(* one iteration: the restart score plus what the in-edges from the nodes
   read carry *)
NewScores(es, ids, seedNodeIds, alpha, scores) ==
    [n \in ids |->
        LET in == {e \in DOMAIN es : es[e].targetId = n /\ es[e].sourceId \in ids}
        IN SeedShare(seedNodeIds, n, alpha)
            + SumOf([e \in in |-> Contribution(es, scores, alpha, e)], in)]

RECURSIVE Iterate(_, _, _, _, _, _)
Iterate(es, ids, seedNodeIds, alpha, iterations, scores) ==
    IF iterations = 0 THEN scores
    ELSE Iterate(es, ids, seedNodeIds, alpha, iterations - 1,
                 NewScores(es, ids, seedNodeIds, alpha, scores))

(* results.sort((a, b) => b.score - a.score), a stable sort *)
InsertByScore(sorted, r) ==
    LET k == Cardinality({i \in DOMAIN sorted : sorted[i].score >= r.score})
    IN SubSeq(sorted, 1, k) \o <<r>> \o SubSeq(sorted, k + 1, Len(sorted))

RECURSIVE SortByScore(_)
SortByScore(results) ==
    IF results = <<>> THEN <<>>
    ELSE InsertByScore(SortByScore(SubSeq(results, 1, Len(results) - 1)),
                       results[Len(results)])

(* the entries with score > 0, in the order the scores were first set: that
   of the rows read *)
RECURSIVE PositiveScores(_, _)
PositiveScores(order, scores) ==
    IF order = <<>> THEN <<>>
    ELSE (IF scores[Head(order)] > 0
          THEN <<[nodeId |-> Head(order), score |-> scores[Head(order)]]>>
          ELSE <<>>) \o PositiveScores(Tail(order), scores)

(* what personalizedPageRank returns when getAllNodes gives the rows in order *)
PageRank(ns, es, order, seedNodeIds, alpha, iterations, topK) ==
    LET ids == {order[i] : i \in DOMAIN order}
        start == [n \in ids |-> SeedShare(seedNodeIds, n, One)]
        scores == Iterate(es, ids, seedNodeIds, alpha, iterations, start)
        results == SortByScore(PositiveScores(order, scores))
    IN SubSeq(results, 1, Min(topK, Len(results)))

PersonalizedPageRank(seedNodeIds, alpha, iterations, topK) ==
    /\ \E order \in RowOrders(nodes, getAllNodes(nodes, PageRankLimit)) :
          ret' = Ret("personalizedPageRank",
                     <<seedNodeIds, alpha, iterations, topK>>,
                     PageRank(nodes, edges, order, seedNodeIds, alpha,
                              iterations, topK))
    /\ err' = "none"
    /\ passLog' = <<>>
    /\ flushLog' = NoFlush
    /\ UNCHANGED <<storeVars, now, accessHistory, streamVars, signatureCache,
                   symbolCodebook, relationCodebook, asyncVars, serviceVars>>

PageRankIds == 1..2
SeedArgs == {<<1>>, <<2>>, <<1, 2>>}
AlphaArgs == {150, 500}
IterationArgs == {0, 1, 2}

NextPageRank ==
    \/ \E k \in {500, 700} : generateId \in PageRankIds /\ AddNode("A", "concept", k)
    \/ \E s, t \in PageRankIds, w \in {500, One} : AddEdge(s, t, "is_a", w, 500)
    \/ \E id \in PageRankIds : DeleteNode(id)
    \/ \E seedNodeIds \in SeedArgs, alpha \in AlphaArgs,
          iterations \in IterationArgs, topK \in {1, 2} :
          PersonalizedPageRank(seedNodeIds, alpha, iterations, topK)

SpecPageRank == Init /\ [][NextPageRank]_vars

(* C26: a personalizedPageRank call that follows one with the same seed
   list, alpha, iterations and topK on the same graph returns the same node
   ids in the same order with the same scores, and no call changes the
   tables. *)
C26_PageRankRepeatable ==
    [][ret'.op = "personalizedPageRank" =>
          /\ UNCHANGED <<nodes, edges, idSeq>>
          /\ (ret.op = "personalizedPageRank" /\ ret'.args = ret.args) =>
                ret'.val = ret.val]_vars

(* personalizedPageRank has returned two nodes of equal karma with equal
   scores, one of which got its score over an edge from the seed *)
C26_Witness ==
    /\ ret.op = "personalizedPageRank" /\ Len(ret.val) = 2
    /\ ret.args[3] >= 1 /\ Len(ret.args[1]) = 1 /\ edges # <<>>
    /\ ret.val[1].score = ret.val[2].score
    /\ nodes[ret.val[1].nodeId].karma = nodes[ret.val[2].nodeId].karma

-----------------------------------------------------------------------------
(* serve-enterprise: the HTTP entrypoint *)

(* T_NSEC_RATE_RPS and T_NSEC_RATE_BURST (5 and 20 by default) *)
RateRps == 2
RateBurst == 2

(* the clock of the model: it moves in steps of StepMs up to MaxClock steps *)
StepMs == 250
MaxClock == 4

(* how many requests reach the rate limiter in the model *)
MaxServed == 4

(* a header value is a string, here the sequence of its characters *)
ApiKey == <<"s", "k">>

Lower(c) == IF c = "B" THEN "b" ELSE c

IsSpace(c) == c = " "

(* String.prototype.trim *)
RECURSIVE TrimStart(_)
TrimStart(s) ==
    IF s # <<>> /\ IsSpace(Head(s)) THEN TrimStart(Tail(s)) ELSE s

RECURSIVE TrimEnd(_)
TrimEnd(s) ==
    IF s # <<>> /\ IsSpace(s[Len(s)]) THEN TrimEnd(SubSeq(s, 1, Len(s) - 1)) ELSE s

Trim(s) == TrimEnd(TrimStart(s))

(* authz.match(/^Bearer\s+(.+)$/i): the capture if the value matches, as
   Some(capture). \s+ takes every space it can and gives one back when
   nothing else is left for (.+) *)
Word == <<"b", "e", "a", "r", "e", "r">>

BearerMatch(authz) ==
    IF /\ Len(authz) >= Len(Word) + 2
       /\ \A i \in DOMAIN Word : Lower(authz[i]) = Word[i]
       /\ IsSpace(authz[Len(Word) + 1])
    THEN LET rest == TrimStart(SubSeq(authz, Len(Word) + 1, Len(authz)))
         IN Some(IF rest = <<>> THEN <<" ">> ELSE rest)
    ELSE Absent

(* parseBearer: null without a header value or a match, else the trimmed
   capture *)
parseBearer(authz) ==
    IF authz = Absent \/ authz = Some(<<>>) THEN Absent
    ELSE IF BearerMatch(authz[1]) = Absent THEN Absent
    ELSE Some(Trim(BearerMatch(authz[1])[1]))

(* req.headers['x-api-key']?.trim() || parseBearer(req.headers['authorization']) *)
RequestKey(xApiKey, authorization) ==
    IF xApiKey # Absent /\ Trim(xApiKey[1]) # <<>>
    THEN Some(Trim(xApiKey[1]))
    ELSE parseBearer(authorization)

(* if (apiKey) { if (!key || key !== apiKey) 401 } *)
Unauthorized(apiKey, key) ==
    apiKey # <<>> /\ (key = Absent \/ key = Some(<<>>) \/ key # Some(apiKey))

(* limiter.allow(key) at time t: the bucket it stores *)
NewBucket(burst, t) == [tokens |-> burst * One, lastRefillMs |-> t]

RefillUncapped(b, rps, burst, t) ==
    [tokens |-> b.tokens + Max(0, t - b.lastRefillMs) * rps, lastRefillMs |-> t]

Refilled(b, rps, burst, t) ==
    [tokens |-> Min(burst * One, b.tokens + Max(0, t - b.lastRefillMs) * rps),
     lastRefillMs |-> t]

BucketAt(bs, key, rps, burst, t) ==
    Refilled(IF key \in DOMAIN bs THEN bs[key] ELSE NewBucket(burst, t),
             rps, burst, t)

Allowed(b) == b.tokens >= One

BucketAfter(b) == IF Allowed(b) THEN [b EXCEPT !.tokens = @ - One] ELSE b

(* a request: its method and path, the two key headers, the client key
   getClientKey gives and whether the body is a JSON object with a prompt *)
Request(method, path, xApiKey, authorization, client, body) ==
    [method |-> method, path |-> path, xApiKey |-> xApiKey,
     authorization |-> authorization, client |-> client, body |-> body]

Response(status, forwarded) == [status |-> status, forwarded |-> forwarded]

Open(req) ==
    \/ req.method = "OPTIONS"
    \/ req.method = "GET" /\ req.path \in {"/health", "/metrics"}

(* the request handler; upstream: ollamaGenerate returns (else it throws) *)
Handle(req, upstream) ==
    LET key == RequestKey(req.xApiKey, req.authorization)
        b == BucketAt(buckets, req.client, RateRps, RateBurst, clockMs)
        limited == ~Open(req) /\ ~Unauthorized(ApiKey, key)
        infer == req.method = "POST" /\ req.path = "/v1/infer"
        forwarded == limited /\ Allowed(b) /\ infer /\ req.body = "prompt"
        status == IF Open(req) THEN 200
                  ELSE IF Unauthorized(ApiKey, key) THEN 401
                  ELSE IF ~Allowed(b) THEN 429
                  ELSE IF ~infer THEN 404
                  ELSE IF req.body = "invalid" THEN 500
                  ELSE IF req.body = "empty" THEN 400
                  ELSE IF upstream THEN 200 ELSE 500
    IN /\ limited => Len(served) < MaxServed
       /\ upstream \/ forwarded
       /\ buckets' = IF limited
                     THEN (req.client :> BucketAfter(b)) @@ buckets
                     ELSE buckets
       /\ served' = IF limited
                    THEN Append(served, [client |-> req.client, at |-> clockMs,
                                         allowed |-> Allowed(b)])
                    ELSE served
       /\ err' = "none"
       /\ ret' = Ret("request", <<req>>, Response(status, forwarded))
       /\ passLog' = <<>>
       /\ flushLog' = NoFlush
       /\ UNCHANGED <<storeVars, now, accessHistory, streamVars, signatureCache,
                      symbolCodebook, relationCodebook, asyncVars, taskQueue, clockMs>>

(* time passes on the server *)
ClockTick ==
    /\ clockMs < MaxClock * StepMs
    /\ clockMs' = clockMs + StepMs
    /\ err' = "none"
    /\ ret' = Ret("clock", <<>>, 0)
    /\ passLog' = <<>>
    /\ flushLog' = NoFlush
    /\ UNCHANGED <<storeVars, now, accessHistory, streamVars, signatureCache,
                   symbolCodebook, relationCodebook, asyncVars, taskQueue, buckets, served>>

(* "Bearer sk", "bearer  sk " and values that do not carry the key *)
BearerKey == <<"B", "e", "a", "r", "e", "r", " ", "s", "k">>
AuthorizationArgs ==
    {Absent, Some(<<>>), Some(BearerKey),
     Some(<<"b", "e", "a", "r", "e", "r", " ", " ", "s", "k", " ">>),
     Some(<<"B", "e", "a", "r", "e", "r", " ", "n", "o">>),
     Some(<<"B", "e", "a", "r", "e", "r", "s", "k">>),
     Some(<<"B", "e", "a", "r", "e", "r", " ", " ">>),
     Some(<<"s", "k">>)}

XApiKeyArgs ==
    {Absent, Some(<<>>), Some(<<"s", "k">>), Some(<<" ", "s", "k", " ">>),
     Some(<<"n", "o">>), Some(<<" ">>)}

(* requests to /v1/infer with every pair of key headers, and requests that
   carry the key or none to the routes and with the bodies the handler
   tells apart *)
KeyRequestArgs ==
    {Request("POST", "/v1/infer", x, a, "a", "prompt") :
        x \in XApiKeyArgs, a \in AuthorizationArgs}
    \cup {Request("POST", "/v1/infer", Absent, Some(BearerKey), "a", body) :
            body \in {"empty", "invalid"}}
    \cup {Request(m, p, Absent, a, "a", "prompt") :
            m \in {"GET", "OPTIONS"}, p \in {"/health", "/v1/infer"},
            a \in {Absent, Some(BearerKey)}}

(* requests of clients a and b that carry the key *)
ClientRequestArgs ==
    {Request("POST", "/v1/infer", Some(ApiKey), Absent, c, "prompt") :
        c \in {"a", "b"}}

NextServer ==
    \/ \E req \in KeyRequestArgs, upstream \in BOOLEAN :
          served = <<>> /\ Handle(req, upstream)
    \/ \E req \in ClientRequestArgs, upstream \in BOOLEAN : Handle(req, upstream)
    \/ ClockTick

SpecServer == Init /\ [][NextServer]_vars

(* the request of the call just made carries the configured key in an
   Authorization: Bearer header, or in an X-API-Key header *)
CarriesBearer == parseBearer(ret.args[1].authorization) = Some(ApiKey)
CarriesXApiKey ==
    /\ ret.args[1].xApiKey # Absent
    /\ Trim(ret.args[1].xApiKey[1]) = ApiKey

(* C27: with T_NSEC_API_KEY set, a request to a protected route that carries
   the configured key in an Authorization: Bearer header or in an X-API-Key
   header is not answered 401, and one that carries it in neither is
   answered 401 and not forwarded to the model. *)
C27_KeyInEitherHeader ==
    (ret.op = "request" /\ ~Open(ret.args[1])) =>
        IF CarriesBearer \/ CarriesXApiKey
        THEN ret.val.status # 401
        ELSE ret.val.status = 401 /\ ~ret.val.forwarded

(* the times at which requests of client were allowed, in order *)
AllowedAt(client) ==
    SelectSeq(served, LAMBDA r : r.client = client /\ r.allowed)

(* no run of allowed requests of one client is longer than burst plus rps
   times the seconds it spans *)
WithinRate(times) ==
    \A i, j \in DOMAIN times :
        i <= j => (j - i + 1) * One
                    <= RateBurst * One + RateRps * (times[j].at - times[i].at)

(* the tokens client has at the time of a request, after the refill *)
TokensAfterRefill(client) ==
    IF client \in DOMAIN buckets
    THEN Min(RateBurst * One,
             buckets[client].tokens
                + (clockMs - buckets[client].lastRefillMs) * RateRps)
    ELSE RateBurst * One

(* C28: every client's bucket holds between 0 and burst tokens at all times;
   a request that reaches the limiter is allowed exactly when the bucket
   holds at least one token after the refill, and then takes one, else it
   is answered 429; so the requests of one client allowed within any
   interval of t seconds number at most burst + rps * t. *)
C28_TokenBucket ==
    /\ [](/\ \A c \in DOMAIN buckets :
                /\ buckets[c].tokens >= 0
                /\ buckets[c].tokens <= RateBurst * One
          /\ \A c \in {"a", "b"} : WithinRate(AllowedAt(c)))
    /\ [][(ret'.op = "request" /\ served' # served) =>
            LET c == ret'.args[1].client
                tokens == TokensAfterRefill(c)
            IN /\ served'[Len(served')].allowed <=> tokens >= One
               /\ ret'.val.status = 429 <=> tokens < One
               /\ buckets'[c].tokens = IF tokens >= One THEN tokens - One
                                       ELSE tokens]_vars

(* client a has had burst + rps * 0.5 requests allowed within half a second,
   one of them on a token refilled in between, and one request refused *)
C28_Witness ==
    /\ Len(AllowedAt("a")) = 3
    /\ AllowedAt("a")[3].at - AllowedAt("a")[1].at = 500
    /\ \E i \in DOMAIN served : served[i].client = "a" /\ ~served[i].allowed

-----------------------------------------------------------------------------
(* runCalibration over two nodes *)

NextPass ==
    \/ \E k \in CalibKarmaArgs :
          generateId \in StreamIds /\ AddNode("A", "concept", k)
    \/ \E s \in BOOLEAN :
          /\ 1 \in DOMAIN nodes /\ nodes[1].karma \in CalibKarmaArgs
          /\ RecordAccess(1, s)
    \/ RunCalibration
    \/ Tick

SpecPass == Init /\ [][NextPass]_vars

(* the calls of the pass that write: a weight, or a deletion *)
Writes(calls) ==
    {i \in DOMAIN calls : calls[i].call \in {"batchUpdateKarma", "deleteNode"}}

(* the weight calculateDecayedKarma gives for a row as it was read *)
WeightFromRead(row, n) == calculateDecayedKarma(row, History(accessHistory, n), now)

(* C29: a runCalibration pass reads all nodes before its first weight write
   and its first deletion, the rows it read are the rows as they were before
   the pass, and every weight it writes and every deletion it makes is the
   one derived from the weight and timestamps of the row as read. *)
C29_ReadBeforeWrite ==
    [][ret'.op = "runCalibration" =>
        LET calls == passLog'
            read == calls[1]
        IN /\ read.call = "getAllNodes" /\ read.rows = nodes
           /\ \A i \in Writes(calls) : i > 1
           /\ \A i \in Writes(calls) :
                 IF calls[i].call = "deleteNode"
                 THEN /\ calls[i].id \in DOMAIN read.rows
                      /\ WeightFromRead(read.rows[calls[i].id], calls[i].id)
                            < pruneThreshold
                 ELSE \A n \in DOMAIN calls[i].updates :
                         /\ n \in DOMAIN read.rows
                         /\ calls[i].updates[n]
                               \in {One, WeightFromRead(read.rows[n], n)}]_vars

(* a pass has written the decayed weight of one node and deleted another *)
C29_Witness ==
    /\ ret.op = "runCalibration"
    /\ \E i, j \in DOMAIN passLog :
          /\ passLog[i].call = "deleteNode"
          /\ passLog[j].call = "batchUpdateKarma"
          /\ \E n \in DOMAIN passLog[j].updates : passLog[j].updates[n] < One

(* how many of the vectors given to the bundle call just made have 1 at
   bit i *)
OnesAt(i) ==
    IF ret.op = "bundleCopies"
    THEN (IF ret.args[2][i] = 1 THEN ret.val.k ELSE 0)
    ELSE Cardinality({e \in DOMAIN Bundled : Bundled[e][i] = 1})

(* C30: for k >= 2 input vectors every bit of bundle's result is 1 when more
   than half of the inputs have 1 at that position and 0 when fewer than
   half do (only exact ties are left to the coin), and the bundle of a
   single vector is equal to that vector. *)
C30_BundleBits ==
    (ret.op \in {"bundle", "bundleCopies"}) =>
        IF ret.val.k >= 2
        THEN \A i \in DOMAIN ret.val.vector :
                /\ 2 * OnesAt(i) > ret.val.k => ret.val.vector[i] = 1
                /\ 2 * OnesAt(i) < ret.val.k => ret.val.vector[i] = 0
        ELSE ret.val.vector = Bundled[1]

----------------------------------------------------------------------------
(* C31: for all symbols s, t and every relation r, pre-registered or not,
   unbinding encodeTriple(s, r, t) with the relation vector of r and then
   with the symbol vector of s yields the symbol vector of t. *)
C31_TripleRecoversTarget ==
    ret.op = "recoverTarget" => ret.val = SymbolVector(ret.args[3])

(* a triple over a relation outside META_RELATIONS, between two different
   symbols, one of them with an imported vector *)
C31_Witness ==
    /\ ret.op = "recoverTarget"
    /\ ret.args = <<"A", "likes", "B">>
    /\ symbolCodebook["A"] # generateDeterministicVector("A")
    /\ ret.val = generateDeterministicVector("B")

----------------------------------------------------------------------------
(* the signature encoder over graphs whose edges run in either direction *)
NextDirection ==
    \/ \E t \in Types : AddNode("A", t, 500)
    \/ \E s \in IdRange, t \in IdRange, r \in Relations : AddEdge(s, t, r, One, 500)
    \/ \E id \in CenterIds, h \in HopsArgs, rnd \in RandomArgs :
          EncodeNodeStructure(id, h, rnd)
    \/ ClearCache

SpecDirection == Init /\ [][NextDirection]_vars

(* the edge table with every edge turned round *)
Reversed(es) ==
    [e \in DOMAIN es |-> [es[e] EXCEPT !.sourceId = es[e].targetId,
                                       !.targetId = es[e].sourceId]]

TripleSymmetric ==
    \A s \in Types, t \in Types, r \in Relations :
        encodeTriple(s, r, t) = encodeTriple(t, r, s)

SignatureSymmetric ==
    \A id \in CenterIds, h \in HopsArgs, rnd \in RandomArgs :
        ComputeSignature(nodes, edges, id, h, rnd).vector
            = ComputeSignature(nodes, Reversed(edges), id, h, rnd).vector

(* encodeNodeStructure computes, on a cache miss, a signature that the
   encoder also computes for the graph with its edges turned round *)
EncodesReversed ==
    (ret'.op = "encodeNodeStructure" /\ ret'.args \notin DOMAIN signatureCache)
    => \E rnd \in RandomArgs :
          ret'.val.vector =
              ComputeSignature(nodes, Reversed(edges), ret'.args[1], ret'.args[2], rnd).vector

(* C40: encodeTriple(s, r, t) equals encodeTriple(t, r, s) for all symbols
   s, t and relations r, so the signature vector encodeNodeStructure computes
   is the same for two graphs that differ only in the direction of edges
   (under the same outcomes of the random draws of bundle and of
   generateRandomVector). *)
C40_DirectionBlind ==
    /\ [](TripleSymmetric /\ SignatureSymmetric)
    /\ [][EncodesReversed]_vars

(* a signature computed from a triple between nodes of different types *)
C40_Witness ==
    /\ ret.op = "encodeNodeStructure"
    /\ ret.args[2] >= 1
    /\ ret.val.edgeCount >= 1
    /\ \E e \in DOMAIN edges :
          /\ edges[e].sourceId = 1
          /\ edges[e].targetId \in DOMAIN nodes \ {1}
          /\ nodes[edges[e].targetId].type # nodes[1].type
          /\ ret.val.vector = encodeTriple(nodes[1].type, edges[e].relation,
                                           nodes[edges[e].targetId].type)

----------------------------------------------------------------------------
(* getSubgraph with its arrays, its Set and its Map *)

(* the rows of a SELECT, listed *)
RECURSIVE Listed(_)
Listed(S) ==
    IF S = {} THEN <<>>
    ELSE LET x == CHOOSE y \in S : \A z \in S : y <= z
         IN <<x>> \o Listed(S \ {x})

(* getInEdges(id): the ids of the edges into id *)
getInEdges(es, id) == {e \in DOMAIN es : es[e].targetId = id}

(* the elements of a list in the order of their first occurrence: what a Set
   or a Map keyed by them iterates over *)
RECURSIVE FirstOccurrences(_, _)
FirstOccurrences(list, seen) ==
    IF list = <<>> THEN <<>>
    ELSE IF Head(list) \in seen
         THEN FirstOccurrences(Tail(list), seen)
         ELSE <<Head(list)>> \o FirstOccurrences(Tail(list), seen \cup {Head(list)})

(* a result that keeps every pushed edge *)
AllPushed(allEdges) == allEdges

(* edgeMap.set(edge.id, edge) for every pushed edge; Array.from(values) *)
EdgeMapValues(allEdges) == FirstOccurrences(allEdges, {})

(* for (const edge of [...outEdges, ...inEdges]) at nodeId *)
RECURSIVE VisitEdges(_, _, _, _)
VisitEdges(es, nodeId, rows, st) ==
    IF rows = <<>> THEN st
    ELSE LET edge == Head(rows)
             neighbor == IF es[edge].sourceId = nodeId
                         THEN es[edge].targetId ELSE es[edge].sourceId
             new == \A i \in DOMAIN st.visitedNodes : st.visitedNodes[i] # neighbor
         IN VisitEdges(es, nodeId, Tail(rows),
               [visitedNodes |-> IF new THEN Append(st.visitedNodes, neighbor)
                                 ELSE st.visitedNodes,
                nextLayer |-> IF new THEN Append(st.nextLayer, neighbor)
                              ELSE st.nextLayer,
                allEdges |-> Append(st.allEdges, edge)])

(* for (const nodeId of currentLayer) *)
RECURSIVE VisitLayer(_, _, _)
VisitLayer(es, currentLayer, st) ==
    IF currentLayer = <<>> THEN st
    ELSE LET nodeId == Head(currentLayer)
             rows == Listed(getOutEdges(es, nodeId)) \o Listed(getInEdges(es, nodeId))
         IN VisitLayer(es, Tail(currentLayer), VisitEdges(es, nodeId, rows, st))

(* for (let h = 0; h < hops; h++) *)
RECURSIVE VisitHops(_, _, _, _)
VisitHops(es, currentLayer, st, h) ==
    IF h <= 0 THEN st
    ELSE LET after == VisitLayer(es, currentLayer, [st EXCEPT !.nextLayer = <<>>])
         IN VisitHops(es, after.nextLayer, after, h - 1)

(* getSubgraph(seedNodeIds, hops): the ids of the nodes and of the edges of
   the two arrays it returns *)
SubgraphResult(ns, es, seedNodeIds, hops) ==
    LET st == VisitHops(es, seedNodeIds,
                        [visitedNodes |-> FirstOccurrences(seedNodeIds, {}),
                         nextLayer |-> <<>>, allEdges |-> <<>>], hops)
    IN [nodes |-> SelectSeq(st.visitedNodes, LAMBDA id : id \in DOMAIN ns),
        edges |-> EdgeMapValues(st.allEdges)]

GetSubgraph(seedNodeIds, hops) ==
    /\ ret' = Ret("getSubgraph", <<seedNodeIds, hops>>,
                  SubgraphResult(nodes, edges, seedNodeIds, hops))
    /\ err' = "none"
    /\ passLog' = <<>>
    /\ flushLog' = NoFlush
    /\ UNCHANGED <<storeVars, now, accessHistory, streamVars, signatureCache,
                   symbolCodebook, relationCodebook, asyncVars, serviceVars>>

(* seed lists: single seeds, a repeated seed, two seeds, an id that may name
   no node *)
SeedListArgs == {<<1>>, <<2>>, <<1, 1>>, <<1, 2>>, <<3>>}
SubgraphHops == {0, 1, 2}

NextSubgraph ==
    \/ AddNode("A", "concept", 500)
    \/ \E s \in IdRange, t \in IdRange : AddEdge(s, t, "is_a", One, 500)
    \/ \E id \in IdRange : DeleteNode(id)
    \/ \E seeds \in SeedListArgs, h \in SubgraphHops : GetSubgraph(seeds, h)

SpecSubgraph == Init /\ [][NextSubgraph]_vars

Elements(list) == {list[i] : i \in DOMAIN list}

NoRepeat(list) == \A i, j \in DOMAIN list : list[i] = list[j] => i = j

Adjacent(es, a, b) ==
    \E e \in DOMAIN es :
        \/ es[e].sourceId = a /\ es[e].targetId = b
        \/ es[e].sourceId = b /\ es[e].targetId = a

(* a path of at most h edges, followed in either direction, from s to n *)
Reaches(es, s, n, h) ==
    \E k \in 0..h : \E p \in [1..(k + 1) -> IdRange] :
        /\ p[1] = s
        /\ p[k + 1] = n
        /\ \A i \in 1..k : Adjacent(es, p[i], p[i + 1])

(* C32: getSubgraph(seeds, hops) returns exactly the existing nodes that
   some seed reaches by a path of at most hops edges, edges being followed
   in both directions, with every node and every edge present at most once
   in the result; with hops = 0 it returns the existing seeds and no edge. *)
C32_SubgraphReach ==
    ret.op = "getSubgraph" =>
        LET seeds == Elements(ret.args[1])
            hops == ret.args[2]
        IN /\ Elements(ret.val.nodes) =
                 {n \in DOMAIN nodes : \E s \in seeds : Reaches(edges, s, n, hops)}
           /\ NoRepeat(ret.val.nodes)
           /\ NoRepeat(ret.val.edges)
           /\ hops = 0 => /\ Elements(ret.val.nodes) = seeds \cap DOMAIN nodes
                          /\ ret.val.edges = <<>>

(* both ends of an edge are seeds: the edge is pushed once from each end *)
C32_Witness ==
    /\ ret.op = "getSubgraph"
    /\ ret.args = <<(<<1, 2>>), 1>>
    /\ ret.val.nodes = <<1, 2>>
    /\ Len(ret.val.edges) = 1
    /\ edges[ret.val.edges[1]].sourceId = 2
    /\ edges[ret.val.edges[1]].targetId = 1

----------------------------------------------------------------------------
(* StreamingHashMemory.approximateNearestNeighbors and the LSH index *)

(* the members of every bucket of every table *)
AllBuckets(tables, queryVector) ==
    UNION {UNION {tables[t][b] : b \in DOMAIN tables[t]} : t \in Tables}

(* candidates: the members of the bucket the query hashes to, table by
   table *)
Candidates(tables, queryVector) ==
    UNION {LET hash == computeLSHHash(queryVector, t)
           IN IF hash \in DOMAIN tables[t] THEN tables[t][hash] ELSE {} : t \in Tables}

(* the orders in which the Set of candidates may be iterated *)
CandidateOrders(ids) ==
    {o \in [1..Cardinality(ids) -> ids] : \A i, j \in DOMAIN o : i # j => o[i] # o[j]}

(* approximateNearestNeighbors(queryVector, topK) *)
ApproximateNearestNeighbors(queryVector, topK, order) ==
    LET found == SelectSeq(order, LAMBDA n : n \in DOMAIN nodes)
        results == [i \in 1..Len(found) |->
                      [nodeId |-> found[i],
                       similarity |-> similarity(Dimensions, queryVector,
                                                 SymbolVector(nodes[found[i]].label)).num,
                       karma |-> nodes[found[i]].karma]]
    IN /\ order \in CandidateOrders(Candidates(lshTables, queryVector))
       /\ symbolCodebook' =
             Learned(symbolCodebook, {nodes[found[i]].label : i \in 1..Len(found)})
       /\ ret' = Ret("approximateNearestNeighbors", <<queryVector, topK>>,
                     Ranked(results, topK))
       /\ err' = "none"
       /\ passLog' = <<>>
       /\ flushLog' = NoFlush
       /\ UNCHANGED <<storeVars, now, accessHistory, streamVars, signatureCache,
                      relationCodebook, asyncVars, serviceVars>>

QueryArgs == {generateDeterministicVector("A"), generateDeterministicVector("B")}

(* the index under relabelled and deleted nodes, flushes and rebuilds *)
NextIndex ==
    \/ generateId \in StreamIds /\ AddNode("A", "concept", 500)
    \/ \E id \in StreamIds : UpdateNode(id, [label |-> "B"])
    \/ \E id \in StreamIds : DeleteNode(id)
    \/ \E id \in StreamIds : BufferKarmaUpdate(id, 250, "none", 0)
    \/ Flush("none", 0)
    \/ RebuildIndex
    \/ \E q \in QueryArgs, topK \in TopKArgs :
          \E order \in CandidateOrders(Candidates(lshTables, q)) :
              ApproximateNearestNeighbors(q, topK, order)

SpecIndex == Init /\ [][NextIndex]_vars

(* the buckets of table t that hold id *)
BucketsOf(t, id) == {b \in DOMAIN lshTables[t] : id \in lshTables[t][b]}

Indexed == UNION {UNION {lshTables[t][b] : b \in DOMAIN lshTables[t]} : t \in Tables}

(* C33: approximateNearestNeighbors(q, topK) returns at most topK results in
   non-increasing similarity, and every returned node is a member of the
   bucket that q hashes to in at least one LSH table and exists in the store
   at the time of the query, even when the index is stale: a deleted node is
   never returned. *)
C33_NeighborsFromBuckets ==
    ret.op = "approximateNearestNeighbors" =>
        /\ Len(ret.val) <= ret.args[2]
        /\ \A i, j \in DOMAIN ret.val :
              i < j => ret.val[i].similarity >= ret.val[j].similarity
        /\ \A i \in DOMAIN ret.val :
              /\ ret.val[i].nodeId \in DOMAIN nodes
              /\ \E t \in Tables :
                    computeLSHHash(ret.args[1], t) \in BucketsOf(t, ret.val[i].nodeId)

(* a query on a stale index: the bucket of the query holds a deleted node
   and a stored one, and the stored one is returned *)
C33_Witness ==
    /\ ret.op = "approximateNearestNeighbors"
    /\ Len(ret.val) = 1
    /\ ret.args[2] = 2
    /\ Candidates(lshTables, ret.args[1]) \ DOMAIN nodes # {}

(* C34: immediately after rebuildIndex(), every node in the store is a
   member of exactly one bucket in each LSH table, namely the bucket for the
   hash of its current label, and no id of a node absent from the store is a
   member of any bucket. *)
C34_RebuiltIndex ==
    ret.op = "rebuildIndex" =>
        /\ \A t \in Tables : \A n \in DOMAIN nodes :
              BucketsOf(t, n) = {computeLSHHash(SymbolVector(nodes[n].label), t)}
        /\ Indexed \subseteq DOMAIN nodes

(* a rebuild of an index that held a node since deleted and a node since
   relabelled *)
C34_Witness ==
    /\ ret.op = "rebuildIndex"
    /\ idSeq = 2
    /\ DOMAIN nodes = {2}
    /\ nodes[2].label = "B"
    /\ \A t \in Tables :
          computeLSHHash(generateDeterministicVector("A"), t) \notin DOMAIN lshTables[t]

(* C39: after any sequence of flush and rebuildIndex calls, every node id is
   a member of at most one bucket in each LSH table. *)
C39_OneBucketPerTable ==
    \A t \in Tables : \A id \in Indexed : Cardinality(BucketsOf(t, id)) <= 1

(* a flush has moved a relabelled node out of the bucket of its old label *)
C39_Witness ==
    /\ ret.op = "flush"
    /\ 1 \in DOMAIN nodes
    /\ nodes[1].label = "B"
    /\ \A t \in Tables :
          LET old == computeLSHHash(generateDeterministicVector("A"), t)
          IN /\ old \in DOMAIN lshTables[t]
             /\ 1 \notin lshTables[t][old]
             /\ BucketsOf(t, 1) = {computeLSHHash(generateDeterministicVector("B"), t)}

----------------------------------------------------------------------------
(* a sequence of buffered deltas that the timer and the capacity trigger
   split into several flushes *)
SplitBatchArgs == [1..BufferCapacity -> [nodeId : {1}, delta : DeltaArgs]]

NextSplit ==
    \/ generateId = 1 /\ AddNode("A", "concept", 900)
    \/ \E d \in DeltaArgs : BufferKarmaUpdate(1, d, "none", 0)
    \/ \E u \in SplitBatchArgs : BufferBatchUpdates(u, "none", 0)
    \/ TimerFlush("none", 0)

SpecSplit == Init /\ [][NextSplit]_vars

(* a flush has returned, and the next call runs a flush of its own *)
TwoFlushes ==
    /\ flushLog.outcome = "ok"
    /\ flushLog'.outcome = "ok"
    /\ flushLog'.pre = nodes

(* the table after one flush of first and then one flush of second *)
FlushedTwice(ns, first, second) == FlushedNodes(FlushedNodes(ns, first), second)

(* C35 as stated: the final stored weight of a node after a sequence of
   bufferKarmaUpdate calls has been fully flushed is independent of the
   order of the calls also when flushes at capacity or timer flushes split
   the sequence into several flushes, each of which clamps to [0,1]. *)
C35_Original ==
    [][TwoFlushes =>
        LET all == flushLog.buffer \o flushLog'.buffer
            cut == Len(flushLog.buffer)
        IN \A p \in Orders(all) :
              LET re == Reordered(all, p)
              IN \A n \in DOMAIN nodes' :
                    FlushedTwice(flushLog.pre, SubSeq(re, 1, cut),
                                 SubSeq(re, cut + 1, Len(re)))[n].karma
                        = nodes'[n].karma]_vars

(* C35: after a sequence of calls that two flushes have applied, the stored
   weight of a node is clamp(clamp(w + s1) + s2), w its weight before the
   first flush and s1, s2 the sums of the deltas of the first and of the
   second flush: it does not depend on the order of the calls inside one
   flush, and across the two flushes only through the clamped sum. *)
C35_ClampedPerFlush ==
    [][TwoFlushes =>
        \A n \in DOMAIN nodes' :
            nodes'[n].karma =
                Clamp01(Clamp01(flushLog.pre[n].karma + DeltaSum(flushLog.buffer, n))
                        + DeltaSum(flushLog'.buffer, n))]_vars

(* a timer flush clamped the weight at 1, and the flush at capacity that
   followed took two deltas off it *)
C35_Witness ==
    /\ ret.op = "bufferBatchUpdates"
    /\ flushLog.outcome = "ok"
    /\ Len(flushLog.buffer) = BufferCapacity
    /\ \A i \in DOMAIN flushLog.buffer : flushLog.buffer[i].delta < 0
    /\ 1 \in DOMAIN nodes
    /\ flushLog.pre[1].karma = One
    /\ nodes[1].karma = One + DeltaSum(flushLog.buffer, 1)

----------------------------------------------------------------------------
(* the timer of startAutoFlush: setInterval keeps calling the callback while
   the timer is set, so a callback that has work to do is not postponed for
   ever; the store does not fail *)
NextTimer ==
    \/ generateId \in CenterIds /\ AddNode("A", "concept", 500)
    \/ \E id \in CenterIds : DeleteNode(id)
    \/ \E id \in CenterIds, d \in DeltaArgs : BufferKarmaUpdate(id, d, "none", 0)
    \/ TimerFlush("none", 0)
    \/ Close("none", 0)
    \/ StopAutoFlush

SpecTimer == Init /\ [][NextTimer]_vars /\ WF_vars(TimerFlush("none", 0))

(* the weights a flush of buffer leaves, from the weights before it *)
Applied(before, after, buffer) ==
    /\ DOMAIN after = DOMAIN before
    /\ \A n \in DOMAIN after :
          after[n].karma = IF \E i \in DOMAIN buffer : buffer[i].nodeId = n
                           THEN Clamp01(before[n].karma + DeltaSum(buffer, n))
                           ELSE before[n].karma

(* the timer's flush and close() apply what is buffered and leave the
   buffer empty; close() leaves the timer stopped *)
TimerAndClose ==
    /\ ret'.op \in {"timer", "close"} =>
          /\ karmaBuffer' = <<>>
          /\ Applied(nodes, nodes', karmaBuffer)
    /\ ret'.op = "close" => ~flushTimer'

(* C36: while the auto-flush timer is active and store writes succeed, every
   entry added to the buffer is eventually applied to the store (the buffer
   eventually becomes empty) even if the buffer never reaches capacity;
   close() flushes what is buffered and then stops the timer. *)
C36_TimerDrainsBuffer ==
    /\ [](karmaBuffer # <<>> => <>(karmaBuffer = <<>> \/ ~flushTimer))
    /\ [][TimerAndClose]_vars

(* the timer has flushed a buffer that was below capacity, and the flush
   wrote the node *)
C36_Witness ==
    /\ ret.op = "timer"
    /\ karmaBuffer = <<>>
    /\ flushTimer
    /\ Len(flushLog.buffer) < BufferCapacity
    /\ nodes # flushLog.pre

----------------------------------------------------------------------------
(* HSpecScheduler with processNext and processAll as the async functions they
   are: a call runs until its await of engine.infer, and other calls run
   before the engine returns *)

AsyncFrame ==
    /\ err' = "none"
    /\ passLog' = <<>>
    /\ flushLog' = NoFlush
    /\ UNCHANGED <<storeVars, now, accessHistory, streamVars, signatureCache,
                   symbolCodebook, relationCodebook, buckets, clockMs, served>>

(* a queue read that leaves the task in the queue *)
peek(queue) == queue

(* this.taskQueue.shift() *)
shift(queue) == Tail(queue)

(* processNext on a non-empty queue, up to `await this.engine.infer(...)`,
   run for caller c inside the call op *)
Dispatch(c, op, results) ==
    /\ taskQueue' = shift(taskQueue)
    /\ engineCalls' = Append(engineCalls, Head(taskQueue))
    /\ callers' = [callers EXCEPT
                      ![c] = [op |-> op, task |-> Some(Head(taskQueue)),
                              results |-> results]]
    /\ scheduleResults' = scheduleResults
    /\ ret' = Ret("awaitInfer", <<c>>, Head(taskQueue))

(* caller c calls processNext() *)
CallProcessNext(c) ==
    /\ callers[c] = Idle
    /\ IF taskQueue = <<>>
       THEN /\ ret' = Ret("processNext", <<c>>, Absent)
            /\ UNCHANGED <<taskQueue, asyncVars>>
       ELSE Dispatch(c, "processNext", <<>>)
    /\ AsyncFrame

(* while (this.taskQueue.length > 0) { await this.processNext() ... };
   return results *)
LoopProcessAll(c, results) ==
    IF taskQueue # <<>>
    THEN Dispatch(c, "processAll", results)
    ELSE /\ callers' = [callers EXCEPT ![c] = Idle]
         /\ ret' = Ret("processAll", <<c>>, results)
         /\ UNCHANGED <<taskQueue, engineCalls, scheduleResults>>

(* caller c calls processAll() *)
CallProcessAll(c) ==
    /\ callers[c] = Idle
    /\ LoopProcessAll(c, <<>>)
    /\ AsyncFrame

(* engine.infer resolves for the task of caller c: processNext returns its
   ScheduleResult, to the caller or to the processAll that awaits it *)
EngineReturns(c) ==
    /\ callers[c].task # Absent
    /\ scheduleResults' = Append(scheduleResults, callers[c].task[1])
    /\ IF callers[c].op = "processNext"
       THEN /\ callers' = [callers EXCEPT ![c] = Idle]
            /\ ret' = Ret("processNext", <<c>>, callers[c].task)
       ELSE /\ callers' = [callers EXCEPT
                              ![c].task = Absent,
                              ![c].results = Append(@, callers[c].task[1])]
            /\ ret' = Ret("resultPushed", <<c>>, 0)
    /\ UNCHANGED <<taskQueue, engineCalls>>
    /\ AsyncFrame

(* processAll resumes after its await *)
ResumeProcessAll(c) ==
    /\ callers[c].op = "processAll"
    /\ callers[c].task = Absent
    /\ LoopProcessAll(c, callers[c].results)
    /\ AsyncFrame

(* the tasks submitted so far: every one is queued or was handed on *)
Submitted == Elements(taskQueue) \cup Elements(engineCalls)

(* three tasks, each submitted once *)
AsyncTasks == {Task("L1", 5, Absent), Task("L1", 10, Absent), Task("L3", 5, Absent)}

NextAsync ==
    \/ \E task \in AsyncTasks \ Submitted : Submit(task)
    \/ \E a \in AsyncTasks \ Submitted, b \in AsyncTasks \ Submitted :
          a # b /\ SubmitBatch(<<a, b>>)
    \/ \E c \in Callers : CallProcessNext(c)
    \/ \E c \in Callers : CallProcessAll(c)
    \/ \E c \in Callers : EngineReturns(c)
    \/ \E c \in Callers : ResumeProcessAll(c)

SpecAsync == Init /\ [][NextAsync]_vars

Produced(task) ==
    Cardinality({i \in DOMAIN scheduleResults : scheduleResults[i] = task})

InFlight(task) == \E c \in Callers : callers[c].task = Some(task)

(* C37 as stated: under any interleaving of submit, submitBatch, processNext
   and processAll calls every submitted task is handed to the inference
   engine at most once, and when the engine does not fail processAll ends
   with an empty queue and every task submitted before it ended has produced
   exactly one result across all callers. *)
C37_Original ==
    /\ NoRepeat(engineCalls)
    /\ ret.op = "processAll" =>
          /\ taskQueue = <<>>
          /\ \A task \in Submitted : Produced(task) = 1

(* C37: every submitted task is handed to the inference engine at most once
   and produces at most one result; when processAll ends the queue is empty
   and every task submitted before has either produced exactly one result
   or is in flight with another caller, which took it from the queue and
   still awaits the engine. *)
C37_OnceAndDrained ==
    /\ NoRepeat(engineCalls)
    /\ \A task \in Submitted : Produced(task) <= 1
    /\ ret.op = "processAll" =>
          /\ taskQueue = <<>>
          /\ \A task \in Submitted :
                \/ Produced(task) = 1 /\ ~InFlight(task)
                \/ Produced(task) = 0 /\ InFlight(task)

(* processAll has ended with two results of its own while a task that a
   processNext call took is still with the engine *)
C37_Witness ==
    /\ ret.op = "processAll"
    /\ Len(ret.val) = 2
    /\ \E c \in Callers : callers[c].op = "processNext" /\ callers[c].task # Absent

-----------------------------------------------------------------------------
(* runCalibration and the weights it leaves in the store *)

(* how long a node is left alone between two passes, in days *)
SleepDays == 28

(* the clock moves on by SleepDays days between two calls *)
Sleep ==
    /\ now <= MaxNow
    /\ now' = now + SleepDays * TicksPerDay
    /\ err' = "none"
    /\ ret' = Ret("sleep", <<>>, 0)
    /\ passLog' = <<>>
    /\ flushLog' = NoFlush
    /\ UNCHANGED <<storeVars, accessHistory, streamVars, signatureCache,
                   symbolCodebook, relationCodebook, asyncVars, serviceVars>>

(* a history of one success and one failure *)
MixedHistory == <<[success |-> TRUE, timestamp |-> 0],
                  [success |-> FALSE, timestamp |-> 0]>>

(* the weights the nodes are added with: under the prune threshold, at it,
   and in the middle of the band *)
PruneKarmaArgs == {99, 100, 500}

(* the histories importHistory is given *)
PruneImportArgs == {<<>>, (1 :> MixedHistory)}

NextPrune ==
    \/ \E k \in PruneKarmaArgs :
          generateId \in CenterIds /\ AddNode("A", "concept", k)
    \/ \E s \in BOOLEAN :
          /\ 1 \in DOMAIN nodes => nodes[1].karma \in PruneKarmaArgs
          /\ RecordAccess(1, s)
    \/ \E h \in PruneImportArgs : ImportHistory(h)
    \/ ClearHistory
    \/ RunCalibration
    \/ Sleep

SpecPrune == Init /\ [][NextPrune]_vars

(* C38 as stated: immediately after runCalibration returns, no node that is
   still in the store has a stored weight below pruneThreshold. *)
C38_Original ==
    ret.op = "runCalibration" =>
        \A n \in DOMAIN nodes : nodes[n].karma >= pruneThreshold

(* C38: immediately after runCalibration returns, every node that is still
   in the store is one whose recomputed weight was at least pruneThreshold,
   and its stored weight is below pruneThreshold only where the pass left
   the node as it was, because the recomputed weight was within 0.01 of the
   stored one and not above consolidateThreshold. *)
C38_NoPrunableLeft ==
    [][ret'.op = "runCalibration" =>
        \A n \in DOMAIN nodes' :
            /\ n \in DOMAIN nodes
            /\ NewKarma(n) >= pruneThreshold
            /\ nodes'[n].karma < pruneThreshold =>
                  /\ nodes'[n] = nodes[n]
                  /\ NewKarma(n) <= consolidateThreshold
                  /\ NewKarma(n) - nodes[n].karma <= DecayBand]_vars

(* runCalibration has returned and a node with a history of accesses is
   still in the store with a stored weight below pruneThreshold *)
C38_Witness ==
    /\ ret.op = "runCalibration"
    /\ \E n \in DOMAIN nodes :
          /\ nodes[n].karma < pruneThreshold
          /\ History(accessHistory, n) # <<>>
          /\ NewKarma(n) >= pruneThreshold

====
